---- MODULE Spec2Model ----
(***************************************************************************)
(* CircuPlay: the grid-indexed component registry (js/grid.js), the        *)
(* component data model (components.js), the circuit simulator             *)
(* (simulation.js) and the UI handlers that drive them (ui.js, main.js).   *)
(***************************************************************************)
EXTENDS FiniteSets, Integers, Sequences, TLC

(* ---------------------------------------------------------------------- *)
(* Program constants                                                       *)
(* ---------------------------------------------------------------------- *)

\* main.js initializeGrid: new Grid(this.canvas, 20)
gridSize == 20

\* the JavaScript null stored in an empty grid cell
NULL == 0

(* ---------------------------------------------------------------------- *)
(* Bounds of the model                                                     *)
(* ---------------------------------------------------------------------- *)

\* number of component objects of the grid-level specification
MaxGridComps == 2
\* largest number of columns / rows a resize of the grid-level specification gives
MaxCols == 2
MaxRows == 3

VARIABLES
    cols,               \* Grid.cols
    rows,               \* Grid.rows
    grid,               \* Grid.grid: cell <<x, y>> -> component id or NULL
    comp,               \* the component objects: id -> fields
    components,         \* CircuitSimulator.components
    powerSources,       \* CircuitSimulator.powerSources
    selectedComponent,  \* UIManager.selectedComponent
    last,               \* the call made by the last step and what it returned
    pre,                \* the grid and the components as they were before the last step
    undo,               \* set by a removeComponent that follows a successful placeComponent
                        \* at the same cell: the component placed and the grid before it
    timers,             \* the switches an interval timer of createBlinkingLED toggles,
                        \* as long as the grid, a list or the selection refers to them
    clock,              \* since the circuit was built: the ticks, the ticks since the last
                        \* toggle, the toggles, and the most switches closed at a tick
    simulator           \* CircuitSimulator.running and .animationId, and the animation
                        \* frames requested of the browser that are still to come

gridVars == <<cols, rows, grid>>
simVars == <<components, powerSources>>
vars == <<cols, rows, grid, comp, components, powerSources, selectedComponent,
          last, pre, undo, timers, clock, simulator>>

(* ---------------------------------------------------------------------- *)
(* Components (components.js)                                              *)
(* ---------------------------------------------------------------------- *)

GateKinds == {"and-gate", "or-gate", "not-gate", "xor-gate", "nand-gate", "nor-gate"}

\* class LogicGate: every subclass passes through its constructor
IsLogicGate(kind) == kind \in GateKinds

\* LogicGate constructor: gridWidth = 1; other components leave it undefined
\* and the grid reads it as (component.gridWidth || 1)
gridWidth(kind) == 1

\* LogicGate constructor: gridHeight = 2; (component.gridHeight || 1) otherwise
gridHeight(kind) == IF IsLogicGate(kind) THEN 2 ELSE 1

\* Component constructor (and the Battery, Switch, LogicGate constructors):
\* the fields of a component created by ComponentFactory.create(kind, x, y)
NewComponent(kind, px, py) ==
    [ kind    |-> kind,
      x       |-> px,
      y       |-> py,
      gridX   |-> 0,
      gridY   |-> 0,
      powered |-> (kind = "battery"),
      closed  |-> FALSE,
      inputs  |-> << >>,
      output  |-> FALSE ]

\* an id of the pool that no object has been created for
NoComponent == NewComponent("none", 0, 0)

(* ---------------------------------------------------------------------- *)
(* Grid (js/grid.js)                                                       *)
(* ---------------------------------------------------------------------- *)

\* Array(rows).fill(null).map(() => Array(cols).fill(null))
EmptyGrid(c, r) == [cell \in (0..(c - 1)) \X (0..(r - 1)) |-> NULL]

\* Math.floor(pixels / this.gridSize)
pixelToGrid(p) == p \div gridSize

isValidPosition(c, r, gx, gy) == gx >= 0 /\ gx < c /\ gy >= 0 /\ gy < r

isEmpty(g, c, r, gx, gy) ==
    IF ~isValidPosition(c, r, gx, gy) THEN FALSE ELSE g[<<gx, gy>>] = NULL

isAreaEmpty(g, c, r, gx, gy, w, h) ==
    \A y \in gy..(gy + h - 1) : \A x \in gx..(gx + w - 1) : isEmpty(g, c, r, x, y)

getComponent(g, c, r, gx, gy) ==
    IF ~isValidPosition(c, r, gx, gy) THEN NULL ELSE g[<<gx, gy>>]

\* the cells placeComponent writes for a component of this kind anchored at (gx, gy)
PlacedCells(kind, gx, gy) ==
    (gx..(gx + gridWidth(kind) - 1)) \X (gy..(gy + gridHeight(kind) - 1))

\* a placeComponent that tests the origin cell alone
placeComponentOk_OriginOnly(g, c, r, kind, gx, gy) == isEmpty(g, c, r, gx, gy)

\* placeComponent: the value it returns
placeComponentOk(g, c, r, kind, gx, gy) ==
    isAreaEmpty(g, c, r, gx, gy, gridWidth(kind), gridHeight(kind))

\* a placeComponent that writes the component into its origin cell alone
placeComponentGrid_OriginCellOnly(g, id, kind, gx, gy) ==
    [cell \in DOMAIN g |-> IF cell = <<gx, gy>> THEN id ELSE g[cell]]

\* placeComponent: the grid after a call that returns true
placeComponentGrid(g, id, kind, gx, gy) ==
    [cell \in DOMAIN g |-> IF cell \in PlacedCells(kind, gx, gy) THEN id ELSE g[cell]]

\* placeComponent: the component's fields after a call that returns true
placeComponentFields(rec, gx, gy) ==
    [rec EXCEPT !.gridX = gx, !.gridY = gy, !.x = gx * gridSize, !.y = gy * gridSize]

\* removeComponent: the cells it clears, from the occupant's own origin and size
RemovedCells(rec) ==
    (rec.gridX..(rec.gridX + gridWidth(rec.kind) - 1))
        \X (rec.gridY..(rec.gridY + gridHeight(rec.kind) - 1))

\* a removeComponent that clamps the coordinates into the grid instead of
\* refusing the ones outside it
removeComponentRet_Clamped(g, c, r, gx, gy) ==
    LET cx == IF gx < 0 THEN 0 ELSE IF gx >= c THEN c - 1 ELSE gx
        cy == IF gy < 0 THEN 0 ELSE IF gy >= r THEN r - 1 ELSE gy
    IN  g[<<cx, cy>>]

\* removeComponent: the value it returns
removeComponentRet(g, c, r, gx, gy) ==
    IF ~isValidPosition(c, r, gx, gy) THEN NULL ELSE g[<<gx, gy>>]

\* a removeComponent that clears the queried cell alone
removeComponentGrid_QueriedCellOnly(g, c, r, cm, gx, gy) ==
    IF ~isValidPosition(c, r, gx, gy) THEN g
    ELSE [cell \in DOMAIN g |-> IF cell = <<gx, gy>> THEN NULL ELSE g[cell]]

\* removeComponent: the grid after the call
removeComponentGrid(g, c, r, cm, gx, gy) ==
    LET id == removeComponentRet(g, c, r, gx, gy) IN
    IF id = NULL THEN g
    ELSE [cell \in DOMAIN g |->
            IF cell \in RemovedCells(cm[id]) /\ isValidPosition(c, r, cell[1], cell[2])
            THEN NULL ELSE g[cell]]

\* clear
clearGrid(g) == [cell \in DOMAIN g |-> NULL]

\* a resize that fills the new cells from the nearest cell of the old array
resizeGrid_FillsFromEdge(g, oc, or, nc, nr) ==
    [cell \in (0..(nc - 1)) \X (0..(nr - 1)) |->
        g[<<IF cell[1] < oc THEN cell[1] ELSE oc - 1, IF cell[2] < or THEN cell[2] ELSE or - 1>>]]

\* resize: the new cell array, with the cells that are in both arrays copied
resizeGrid(g, oc, or, nc, nr) ==
    [cell \in (0..(nc - 1)) \X (0..(nr - 1)) |->
        IF cell[1] < oc /\ cell[2] < or THEN g[cell] ELSE NULL]

(* ---------------------------------------------------------------------- *)
(* Reading the state                                                       *)
(* ---------------------------------------------------------------------- *)

\* the components that occupy at least one cell
OnGrid == {grid[cell] : cell \in DOMAIN grid} \ {NULL}

\* the cells a component occupies
CellsOf(id) == {cell \in DOMAIN grid : grid[cell] = id}

\* the footprint of a component, from its stored origin and its size
Footprint(id) == RemovedCells(comp[id])

NoCall == [op |-> "none", c |-> NULL, kind |-> "none", x |-> 0, y |-> 0, ok |-> FALSE, ret |-> NULL]

Snapshot == [grid |-> grid, comp |-> comp, cols |-> cols, rows |-> rows]

NoUndo == [active |-> FALSE, c |-> NULL, grid |-> << >>]

NoClock == [ticks |-> 0, steady |-> 0, toggles |-> 0, most |-> 0]

(* ---------------------------------------------------------------------- *)
(* The simulator's loop                                                    *)
(* ---------------------------------------------------------------------- *)

\* the most animation frames that are requested and still to come
MaxFrames == 3

\* new CircuitSimulator(grid): not running, no frame requested
Constructed == [running |-> FALSE, animationId |-> NULL, frames |-> {}]

\* this.animationId = requestAnimationFrame(() => this.simulate()): the browser
\* hands out a handle that no frame still to come has
requestAnimationFrame(s) ==
    LET handle == CHOOSE h \in 1..(Cardinality(s.frames) + 1) :
                      h \notin s.frames /\ \A k \in 1..(h - 1) : k \in s.frames
    IN  [s EXCEPT !.animationId = handle, !.frames = @ \cup {handle}]

\* simulate that goes on without looking at this.running
simulate_Unguarded(s, due) == [sim |-> requestAnimationFrame(s), updated |-> due]

\* CircuitSimulator.simulate; due says that updateInterval has passed since
\* lastUpdate; updated says that it calls updateCircuit
simulate(s, due) ==
    IF ~s.running THEN [sim |-> s, updated |-> FALSE]
    ELSE [sim |-> requestAnimationFrame(s), updated |-> due]

\* CircuitSimulator.start
start(s, due) == simulate([s EXCEPT !.running = TRUE], due)

\* CircuitSimulator.stop
stop(s) ==
    IF s.animationId # NULL
    THEN [s EXCEPT !.running = FALSE, !.frames = @ \ {s.animationId}, !.animationId = NULL]
    ELSE [s EXCEPT !.running = FALSE]

\* the simulator after CircuPlay.init has started it
Started == start(Constructed, FALSE).sim

(* ---------------------------------------------------------------------- *)
(* The grid-level specification: calls of the Grid methods                 *)
(* ---------------------------------------------------------------------- *)

GridComps == 1..MaxGridComps

\* the kinds that matter to the grid: a one-cell and a two-cell component
GridKinds == {"wire", "and-gate"}

\* pixel sizes handed to resize
ResizePixels(maxCells) == {n * gridSize : n \in 1..maxCells} \cup {gridSize + gridSize \div 2}

InitGrid ==
    /\ cols \in 1..MaxCols
    /\ rows \in 1..MaxRows
    /\ grid = EmptyGrid(cols, rows)
    /\ \E kinds \in [GridComps -> GridKinds] :
          comp = [id \in GridComps |-> NewComponent(kinds[id], 0, 0)]
    /\ components = << >>
    /\ powerSources = << >>
    /\ selectedComponent = NULL
    /\ last = NoCall
    /\ pre = Snapshot
    /\ undo = NoUndo
    /\ timers = {}
    /\ clock = NoClock
    /\ simulator = Constructed

\* Grid.placeComponent(component, gridX, gridY), for a component that is not on
\* the grid (every caller creates the component or removes it first)
GridPlace(id, gx, gy) ==
    LET ok == placeComponentOk(grid, cols, rows, comp[id].kind, gx, gy) IN
    /\ id \notin OnGrid
    /\ grid' = IF ok THEN placeComponentGrid(grid, id, comp[id].kind, gx, gy) ELSE grid
    /\ comp' = IF ok THEN [comp EXCEPT ![id] = placeComponentFields(comp[id], gx, gy)] ELSE comp
    /\ last' = [NoCall EXCEPT !.op = "place", !.c = id, !.kind = comp[id].kind,
                              !.x = gx, !.y = gy, !.ok = ok]
    /\ pre' = Snapshot
    /\ undo' = NoUndo
    /\ UNCHANGED <<simulator, cols, rows, components, powerSources, selectedComponent, clock, timers>>

\* Grid.removeComponent(gridX, gridY)
GridRemove(gx, gy) ==
    LET id == removeComponentRet(grid, cols, rows, gx, gy) IN
    /\ grid' = removeComponentGrid(grid, cols, rows, comp, gx, gy)
    /\ last' = [NoCall EXCEPT !.op = "remove", !.x = gx, !.y = gy, !.ok = (id # NULL), !.ret = id]
    /\ pre' = Snapshot
    /\ undo' = IF last.op = "place" /\ last.ok /\ last.x = gx /\ last.y = gy
               THEN [active |-> TRUE, c |-> last.c, grid |-> pre.grid]
               ELSE NoUndo
    /\ UNCHANGED <<simulator, cols, rows, comp, components, powerSources, selectedComponent, clock, timers>>

\* Grid.clear()
GridClear ==
    /\ grid' = clearGrid(grid)
    /\ last' = [NoCall EXCEPT !.op = "clear"]
    /\ pre' = Snapshot
    /\ undo' = NoUndo
    /\ UNCHANGED <<simulator, cols, rows, comp, components, powerSources, selectedComponent, clock, timers>>

\* Grid.resize(width, height)
GridResize(w, h) ==
    /\ cols' = w \div gridSize
    /\ rows' = h \div gridSize
    /\ grid' = resizeGrid(grid, cols, rows, cols', rows')
    /\ last' = [NoCall EXCEPT !.op = "resize", !.x = w, !.y = h]
    /\ pre' = Snapshot
    /\ undo' = NoUndo
    /\ UNCHANGED <<simulator, comp, components, powerSources, selectedComponent, clock, timers>>

NextGrid ==
    \/ \E id \in GridComps, gx \in (-1)..cols, gy \in (-1)..rows : GridPlace(id, gx, gy)
    \/ \E gx \in (-1)..cols, gy \in (-1)..rows : GridRemove(gx, gy)
    \/ GridClear
    \/ \E w \in ResizePixels(MaxCols), h \in ResizePixels(MaxRows) : GridResize(w, h)

SpecGrid == InitGrid /\ [][NextGrid]_vars

(* ---------------------------------------------------------------------- *)
(* CircuitSimulator: the component list and the source list                *)
(* ---------------------------------------------------------------------- *)

Range(seq) == {seq[i] : i \in 1..Len(seq)}

\* Array.indexOf, 1-based; 0 when absent
IndexOf(seq, e) ==
    IF e \in Range(seq) THEN CHOOSE i \in 1..Len(seq) : seq[i] = e /\ \A j \in 1..(i - 1) : seq[j] # e
    ELSE 0

\* index = indexOf(e); if (index > -1) splice(index, 1)
Splice(seq, e) ==
    LET i == IndexOf(seq, e) IN
    IF i = 0 THEN seq ELSE [j \in 1..(Len(seq) - 1) |-> IF j < i THEN seq[j] ELSE seq[j + 1]]

\* addComponent: the component list after the call
addComponentList(list, id) == IF id \in Range(list) THEN list ELSE Append(list, id)

\* addComponent: the source list after the call
addComponentSources(list, srcs, id, kind) ==
    IF id \notin Range(list) /\ kind = "battery" THEN Append(srcs, id) ELSE srcs

\* removeComponent: the component list after the call
removeComponentList(list, id) == Splice(list, id)

\* a removeComponent that forgets the source list
removeComponentSources_Forgotten(srcs, id) == srcs

\* removeComponent: the source list after the call
removeComponentSources(srcs, id) == Splice(srcs, id)

(* ---------------------------------------------------------------------- *)
(* CircuitSimulator.updateCircuit: one tick                                *)
(* ---------------------------------------------------------------------- *)

\* Grid.getNeighbors, its directions array: left, right, up, down
directions == << <<-1, 0>>, <<1, 0>>, <<0, -1>>, <<0, 1>> >>

\* Grid.getNeighbors with the directions array given: the occupants of the
\* cells around (gx, gy), in the order of the array
getNeighborsIn(dirs, g, c, r, gx, gy) ==
    LET around == [i \in 1..Len(dirs) |-> getComponent(g, c, r, gx + dirs[i][1], gy + dirs[i][2])]
    IN  SelectSeq(around, LAMBDA e : e # NULL)

\* Grid.getNeighbors: the occupants of the left, right, upper and lower cell,
\* in this order
getNeighbors(g, c, r, gx, gy) == getNeighborsIn(directions, g, c, r, gx, gy)

\* CircuitSimulator.canConduct
canConduct(rec) ==
    CASE rec.kind = "wire" -> TRUE
      [] rec.kind = "resistor" -> TRUE
      [] rec.kind = "led" -> TRUE
      [] rec.kind = "switch" -> rec.closed
      [] rec.kind = "push-button" -> rec.closed
      [] rec.kind = "buzzer" -> TRUE
      [] rec.kind \in {"and-gate", "or-gate", "not-gate"} -> TRUE
      [] rec.kind = "battery" -> TRUE
      [] OTHER -> FALSE

\* CircuitSimulator.shouldPropagate
shouldPropagate(rec) ==
    CASE rec.kind = "wire" -> TRUE
      [] rec.kind = "switch" -> rec.closed
      [] rec.kind = "push-button" -> rec.closed
      [] rec.kind = "resistor" -> TRUE
      [] rec.kind \in {"and-gate", "or-gate", "not-gate"} -> rec.output
      [] OTHER -> FALSE

\* a calculate whose AND gate is satisfied by one input
calculate_AndOfAny(kind, inputs) ==
    CASE kind = "and-gate"  -> \E i \in 1..Len(inputs) : inputs[i]
      [] kind = "or-gate"   -> IF Len(inputs) < 1 THEN FALSE ELSE \E i \in 1..Len(inputs) : inputs[i]
      [] kind = "not-gate"  -> IF Len(inputs) > 0 THEN ~inputs[1] ELSE FALSE
      [] kind = "xor-gate"  -> IF Len(inputs) < 2 THEN FALSE ELSE inputs[1] # inputs[2]
      [] kind = "nand-gate" -> IF Len(inputs) < 2 THEN TRUE ELSE ~(inputs[1] /\ inputs[2])
      [] kind = "nor-gate"  -> IF Len(inputs) < 2 THEN TRUE ELSE ~(inputs[1] \/ inputs[2])

\* ANDGate .. NORGate.calculate
calculate(kind, inputs) ==
    CASE kind = "and-gate"  -> IF Len(inputs) < 2 THEN FALSE ELSE inputs[1] /\ inputs[2]
      [] kind = "or-gate"   -> IF Len(inputs) < 1 THEN FALSE ELSE \E i \in 1..Len(inputs) : inputs[i]
      [] kind = "not-gate"  -> IF Len(inputs) > 0 THEN ~inputs[1] ELSE FALSE
      [] kind = "xor-gate"  -> IF Len(inputs) < 2 THEN FALSE ELSE inputs[1] # inputs[2]
      [] kind = "nand-gate" -> IF Len(inputs) < 2 THEN TRUE ELSE ~(inputs[1] /\ inputs[2])
      [] kind = "nor-gate"  -> IF Len(inputs) < 2 THEN TRUE ELSE ~(inputs[1] \/ inputs[2])

\* an update that leaves logic gates as propagation left them
update_SkipsGates(rec) ==
    CASE rec.kind = "battery" -> [rec EXCEPT !.powered = TRUE]
      [] rec.kind = "switch" -> [rec EXCEPT !.powered = IF ~rec.closed THEN FALSE ELSE @]
      [] OTHER -> rec

\* an update whose gates set output and leave powered as it was
update_OutputOnly(rec) ==
    CASE rec.kind = "battery" -> [rec EXCEPT !.powered = TRUE]
      [] rec.kind = "switch" -> [rec EXCEPT !.powered = IF ~rec.closed THEN FALSE ELSE @]
      [] IsLogicGate(rec.kind) -> [rec EXCEPT !.output = calculate(rec.kind, rec.inputs)]
      [] OTHER -> rec

\* Battery.update, Switch.update, LogicGate.update; Component.update does nothing
update(rec) ==
    CASE rec.kind = "battery" -> [rec EXCEPT !.powered = TRUE]
      [] rec.kind = "switch" -> [rec EXCEPT !.powered = IF ~rec.closed THEN FALSE ELSE @]
      [] IsLogicGate(rec.kind) ->
            [rec EXCEPT !.output = calculate(rec.kind, rec.inputs),
                        !.powered = calculate(rec.kind, rec.inputs)]
      [] OTHER -> rec

RECURSIVE propagatePower(_, _, _, _, _), PowerEach(_, _, _, _, _, _), PowerOne(_, _, _, _, _)

\* propagatePower, the body of its loop: st holds the components, the visited
\* set, the components expanded so far in this top-level call (trail) and the
\* directions array the grid answers getNeighbors with; id is the neighbour
\* looked at
PowerOne(g, c, r, st, id) ==
    IF id \in st.visited \/ ~canConduct(st.cm[id]) THEN st
    ELSE LET lit == [st EXCEPT !.cm[id].powered = TRUE] IN
         IF shouldPropagate(lit.cm[id]) THEN propagatePower(g, c, r, lit, id) ELSE lit

\* the loop left after the first neighbour it powers
PowerEach_LeavesAtFirst(g, c, r, st, nbrs, i) ==
    IF i > Len(nbrs) THEN st
    ELSE IF nbrs[i] \notin st.visited /\ canConduct(st.cm[nbrs[i]])
    THEN PowerOne(g, c, r, st, nbrs[i])
    ELSE PowerEach(g, c, r, st, nbrs, i + 1)

\* propagatePower: for (const neighbor of neighbors)
PowerEach(g, c, r, st, nbrs, i) ==
    IF i > Len(nbrs) THEN st ELSE PowerEach(g, c, r, PowerOne(g, c, r, st, nbrs[i]), nbrs, i + 1)

\* propagatePower without visited.add(source.id), given up after eight
\* expansions
propagatePower_NeverMarks(g, c, r, st, source) ==
    IF source \in st.visited \/ Len(st.trail) >= 8 THEN st
    ELSE LET src   == st.cm[source]
             began == [st EXCEPT !.trail = Append(@, source)]
             done  == PowerEach(g, c, r, began,
                                getNeighborsIn(st.dirs, g, c, r, src.gridX, src.gridY), 1)
             out   == getComponent(g, c, r, src.gridX + 1, src.gridY + 1)
         IN  IF IsLogicGate(src.kind) /\ src.output /\ out # NULL
             THEN PowerOne(g, c, r, done, out)
             ELSE done

\* CircuitSimulator.propagatePower(source, visited)
propagatePower(g, c, r, st, source) ==
    IF source \in st.visited THEN st
    ELSE LET src   == st.cm[source]
             began == [st EXCEPT !.visited = @ \cup {source}, !.trail = Append(@, source)]
             done  == PowerEach(g, c, r, began,
                                getNeighborsIn(st.dirs, g, c, r, src.gridX, src.gridY), 1)
             out   == getComponent(g, c, r, src.gridX + 1, src.gridY + 1)
         IN  IF IsLogicGate(src.kind) /\ src.output /\ out # NULL
             THEN PowerOne(g, c, r, done, out)
             ELSE done

\* propagatePower(source, new Set()) on a grid with the given directions array
Propagation(dirs, g, c, r, cm, source) ==
    propagatePower(g, c, r, [cm |-> cm, visited |-> {}, trail |-> << >>, dirs |-> dirs], source)

\* propagatePower(source, new Set()): the components afterwards
PowerFrom(g, c, r, cm, source) == Propagation(directions, g, c, r, cm, source).cm

\* updateCircuit, first loop: reset every component but the batteries
\* a reset loop that opens the switches as well
ResetAll_OpensSwitches(cm, list) ==
    [id \in DOMAIN cm |->
        IF id \in Range(list) /\ cm[id].kind # "battery"
        THEN [cm[id] EXCEPT !.powered = FALSE, !.closed = FALSE,
                            !.inputs = IF IsLogicGate(cm[id].kind) THEN << >> ELSE @]
        ELSE cm[id]]

ResetAll(cm, list) ==
    [id \in DOMAIN cm |->
        IF id \in Range(list) /\ cm[id].kind # "battery"
        THEN [cm[id] EXCEPT !.powered = FALSE, !.inputs = IF IsLogicGate(cm[id].kind) THEN << >> ELSE @]
        ELSE cm[id]]

RECURSIVE PowerSourcesIn(_, _, _, _, _, _, _)
\* updateCircuit, second loop: propagate from each source that is powered
PowerSourcesIn(dirs, g, c, r, cm, srcs, i) ==
    IF i > Len(srcs) THEN cm
    ELSE PowerSourcesIn(dirs, g, c, r,
                        IF cm[srcs[i]].powered THEN Propagation(dirs, g, c, r, cm, srcs[i]).cm ELSE cm,
                        srcs, i + 1)

\* the second loop with the directions array of Grid.getNeighbors
PowerSourcesFrom(g, c, r, cm, srcs, i) == PowerSourcesIn(directions, g, c, r, cm, srcs, i)

\* updateLogicGates: the inputs one gate collects
GateInputs(g, c, r, cm, id) ==
    LET top    == getComponent(g, c, r, cm[id].gridX - 1, cm[id].gridY)
        bottom == getComponent(g, c, r, cm[id].gridX - 1, cm[id].gridY + 2)
        read   == SelectSeq(<<top, bottom>>, LAMBDA e : e # NULL /\ e # id)
    IN  [i \in 1..Len(read) |-> cm[read[i]].powered]

RECURSIVE updateLogicGates(_, _, _, _, _, _)
\* CircuitSimulator.updateLogicGates, over the gates of the component list
updateLogicGates(g, c, r, cm, gates, i) ==
    IF i > Len(gates) THEN cm
    ELSE updateLogicGates(g, c, r,
            [cm EXCEPT ![gates[i]] = update([@ EXCEPT !.inputs = GateInputs(g, c, r, cm, gates[i])])],
            gates, i + 1)

RECURSIVE PowerGatesIn_FromEveryGate(_, _, _, _, _, _, _)
\* a fourth loop that propagates from every gate, whatever its output
PowerGatesIn_FromEveryGate(dirs, g, c, r, cm, gates, i) ==
    IF i > Len(gates) THEN cm
    ELSE PowerGatesIn_FromEveryGate(dirs, g, c, r, Propagation(dirs, g, c, r, cm, gates[i]).cm,
                                    gates, i + 1)

RECURSIVE PowerGatesIn(_, _, _, _, _, _, _)
\* updateCircuit, fourth loop: propagate from each gate whose output is true
PowerGatesIn(dirs, g, c, r, cm, gates, i) ==
    IF i > Len(gates) THEN cm
    ELSE PowerGatesIn(dirs, g, c, r,
                      IF cm[gates[i]].output THEN Propagation(dirs, g, c, r, cm, gates[i]).cm ELSE cm,
                      gates, i + 1)

\* the fourth loop with the directions array of Grid.getNeighbors
PowerGatesFrom(g, c, r, cm, gates, i) == PowerGatesIn(directions, g, c, r, cm, gates, i)

\* updateCircuit, last loop: component.update() for every component
UpdateAll(cm, list) == [id \in DOMAIN cm |-> IF id \in Range(list) THEN update(cm[id]) ELSE cm[id]]

\* updateCircuit on a grid with the given directions array
updateCircuitIn(dirs, g, c, r, cm, list, srcs) ==
    LET gates   == SelectSeq(list, LAMBDA id : IsLogicGate(cm[id].kind))
        reset   == ResetAll(cm, list)
        sourced == PowerSourcesIn(dirs, g, c, r, reset, srcs, 1)
        gated   == updateLogicGates(g, c, r, sourced, gates, 1)
        driven  == PowerGatesIn(dirs, g, c, r, gated, gates, 1)
    IN  UpdateAll(driven, list)

\* CircuitSimulator.updateCircuit: the components after one tick
updateCircuit(g, c, r, cm, list, srcs) == updateCircuitIn(directions, g, c, r, cm, list, srcs)

(* ---------------------------------------------------------------------- *)
(* The application: UIManager handlers on one grid and one simulator       *)
(* ---------------------------------------------------------------------- *)

\* number of component objects alive at a time
MaxComps == 8
\* the canvas of the application-level specification, in cells
SimCols == 6
SimRows == 3
\* the cells the pointer drops new components on: columns and rows 0..MaxDrop
MaxDrop == 0

Comps == 1..MaxComps

\* the kinds dragged from the toolbar, and a kind the factory does not know
DropKinds == {"battery", "and-gate", "bogus"}

\* ComponentFactory.create: the kinds it has a case for
FactoryKinds == {"battery", "led", "resistor", "switch", "wire"} \cup GateKinds

\* the objects something still refers to
Referenced(g, list, srcs, sel) ==
    (({g[cell] : cell \in DOMAIN g} \cup Range(list) \cup Range(srcs) \cup {sel}) \ {NULL})

\* objects nothing refers to are forgotten, so that their ids can stand for new objects
Collect(cm, g, list, srcs, sel) ==
    [id \in DOMAIN cm |-> IF id \in Referenced(g, list, srcs, sel) THEN cm[id] ELSE NoComponent]

\* the id that stands for the next object created
FreshId(cm) == CHOOSE id \in DOMAIN cm : cm[id].kind = "none" /\ \A j \in DOMAIN cm : j < id => cm[j].kind # "none"

HasFresh(cm, n) == Cardinality({id \in DOMAIN cm : cm[id].kind = "none"}) >= n

Part(kind, px, py, gx, gy) == [kind |-> kind, px |-> px, py |-> py, gx |-> gx, gy |-> gy]

\* the starter circuits: what each builder creates (kind, pixel position) and
\* where it places it, in the order of the builder's calls
StarterParts(type) ==
    CASE type = "blinkingLED" ->
           << Part("battery", 0, 0, 0, 0), Part("switch", 20, 0, 1, 0),
              Part("led", 40, 0, 2, 0), Part("wire", 60, 0, 3, 0) >>
      [] type = "basicAND" ->
           << Part("battery", 0, 0, 0, 0), Part("battery", 0, 40, 0, 2),
              Part("switch", 20, 0, 1, 0), Part("switch", 20, 40, 1, 2),
              Part("wire", 40, 0, 2, 0), Part("wire", 40, 40, 2, 2),
              Part("and-gate", 60, 10, 3, 0), Part("led", 80, 20, 4, 1) >>
      [] type = "xorDemo" ->
           << Part("battery", 0, 0, 0, 0), Part("battery", 0, 40, 0, 2),
              Part("switch", 20, 0, 1, 0), Part("switch", 20, 40, 1, 2),
              Part("wire", 40, 0, 2, 0), Part("wire", 40, 40, 2, 2),
              Part("xor-gate", 60, 20, 3, 1), Part("led", 80, 20, 4, 1) >>
      [] type = "srFlipFlop" ->
           << Part("battery", 0, 0, 0, 0), Part("battery", 0, 40, 0, 2),
              Part("switch", 20, 0, 1, 0), Part("switch", 20, 40, 1, 2),
              Part("nor-gate", 60, 10, 3, 0), Part("nor-gate", 60, 30, 3, 1),
              Part("led", 100, 10, 5, 0), Part("led", 100, 30, 5, 1) >>
      [] type = "fullAdder" ->
           << Part("battery", 0, 0, 0, 0), Part("battery", 0, 20, 0, 1),
              Part("battery", 0, 40, 0, 2),
              Part("switch", 20, 0, 1, 0), Part("switch", 20, 20, 1, 1),
              Part("switch", 20, 40, 1, 2),
              Part("xor-gate", 60, 10, 3, 0), Part("xor-gate", 100, 20, 5, 1),
              Part("and-gate", 60, 30, 3, 1), Part("and-gate", 100, 40, 5, 2),
              Part("or-gate", 140, 35, 7, 1),
              Part("led", 140, 20, 7, 1), Part("led", 180, 35, 9, 1) >>
      [] type = "counter" ->
           << Part("battery", 0, 20, 0, 1), Part("switch", 20, 20, 1, 1),
              Part("switch", 60, 0, 3, 0), Part("switch", 60, 20, 3, 1),
              Part("switch", 60, 40, 3, 2), Part("switch", 60, 60, 3, 3),
              Part("led", 80, 0, 4, 0), Part("led", 80, 20, 4, 1),
              Part("led", 80, 40, 4, 2), Part("led", 80, 60, 4, 3),
              Part("and-gate", 100, 10, 5, 0), Part("and-gate", 100, 30, 5, 1),
              Part("and-gate", 100, 50, 5, 2) >>

\* the state the handlers work on
World(g, cm, list, srcs) == [grid |-> g, comp |-> cm, components |-> list, powerSources |-> srcs]

\* ComponentFactory.create followed by grid.placeComponent, as the builders do
CreateAndPlace(w, part) ==
    LET id  == FreshId(w.comp)
        rec == NewComponent(part.kind, part.px, part.py)
        ok  == placeComponentOk(w.grid, cols, rows, part.kind, part.gx, part.gy)
    IN  [w EXCEPT !.grid = IF ok THEN placeComponentGrid(w.grid, id, part.kind, part.gx, part.gy) ELSE @,
                  !.comp = [@ EXCEPT ![id] = IF ok THEN placeComponentFields(rec, part.gx, part.gy) ELSE rec],
                  !.components = Append(@, id)]

RECURSIVE CreateAll(_, _, _)
CreateAll(w, parts, i) ==
    IF i > Len(parts) THEN w ELSE CreateAll(CreateAndPlace(w, parts[i]), parts, i + 1)

RECURSIVE AddAll(_, _, _)
\* [..].forEach(comp => this.addComponent(comp))
AddAll(w, ids, i) ==
    IF i > Len(ids) THEN w
    ELSE AddAll([w EXCEPT !.components = addComponentList(w.components, ids[i]),
                          !.powerSources = addComponentSources(w.components, w.powerSources,
                                                               ids[i], w.comp[ids[i]].kind)],
                ids, i + 1)

\* createBlinkingLED, createBasicANDGate, createXORDemo, createSRFlipFlop:
\* grid.clear(), create and place every part, reset both lists, add every part
BuildStarter(type) ==
    LET cleared == World(clearGrid(grid), Collect(comp, clearGrid(grid), << >>, << >>, selectedComponent),
                         << >>, << >>)
        built   == CreateAll(cleared, StarterParts(type), 1)
    IN  AddAll([built EXCEPT !.components = << >>, !.powerSources = << >>], built.components, 1)

Call(op, id, kind, x, y, ok) ==
    [op |-> op, c |-> id, kind |-> kind, x |-> x, y |-> y, ok |-> ok, ret |-> NULL]

Init ==
    /\ cols = SimCols
    /\ rows = SimRows
    /\ grid = EmptyGrid(cols, rows)
    /\ comp = [id \in Comps |-> NoComponent]
    /\ components = << >>
    /\ powerSources = << >>
    /\ selectedComponent = NULL
    /\ last = Call("none", NULL, "none", 0, 0, FALSE)
    /\ pre = << >>
    /\ undo = NoUndo
    /\ timers = {}
    /\ clock = NoClock
    /\ simulator = Started

\* UIManager.placeComponent(type, x, y), with (gx, gy) the cell under the pointer
PlaceComponent(kind, gx, gy) ==
    LET id  == FreshId(comp)
        rec == NewComponent(kind, gx * gridSize, gy * gridSize)
        ok  == /\ isEmpty(grid, cols, rows, gx, gy)
               /\ kind \in FactoryKinds
               /\ placeComponentOk(grid, cols, rows, kind, gx, gy)
    IN  /\ HasFresh(comp, 1)
        /\ grid' = IF ok THEN placeComponentGrid(grid, id, kind, gx, gy) ELSE grid
        /\ comp' = IF ok THEN [comp EXCEPT ![id] = placeComponentFields(rec, gx, gy)] ELSE comp
        /\ components' = IF ok THEN addComponentList(components, id) ELSE components
        /\ powerSources' = IF ok THEN addComponentSources(components, powerSources, id, kind)
                           ELSE powerSources
        /\ last' = Call("place", IF ok THEN id ELSE NULL, kind, gx, gy, ok)
        /\ UNCHANGED <<simulator, cols, rows, selectedComponent, pre, undo, clock, timers>>

\* UIManager.deleteComponent(component): from the context menu of a component
\* on the grid, or from the Delete key for the selected component
DeleteComponent(id) ==
    LET gx == pixelToGrid(comp[id].x)
        gy == pixelToGrid(comp[id].y)
        g  == removeComponentGrid(grid, cols, rows, comp, gx, gy)
        l  == removeComponentList(components, id)
        s  == removeComponentSources(powerSources, id)
        sel == IF selectedComponent = id THEN NULL ELSE selectedComponent
    IN  /\ grid' = g
        /\ components' = l
        /\ powerSources' = s
        /\ selectedComponent' = sel
        /\ comp' = Collect(comp, grid', components', powerSources', selectedComponent')
        /\ last' = Call("delete", id, comp[id].kind, gx, gy, TRUE)
        /\ UNCHANGED <<simulator, cols, rows, pre, undo, clock>>
        /\ timers' = timers \cap Referenced(grid', components', powerSources', selectedComponent')

\* UIManager.selectNextComponent (the Tab key)
SelectNextComponent ==
    /\ Len(components) > 0
    /\ selectedComponent' = components[(IndexOf(components, selectedComponent) % Len(components)) + 1]
    /\ comp' = Collect(comp, grid, components, powerSources, selectedComponent')
    /\ last' = Call("select", selectedComponent', "none", 0, 0, TRUE)
    /\ UNCHANGED <<simulator, cols, rows, grid, components, powerSources, pre, undo, clock>>
    /\ timers' = timers \cap Referenced(grid', components', powerSources', selectedComponent')

\* UIManager.clearCircuit, confirmed
ClearCircuit ==
    /\ grid' = clearGrid(grid)
    /\ components' = << >>
    /\ powerSources' = << >>
    /\ selectedComponent' = NULL
    /\ comp' = [id \in DOMAIN comp |-> NoComponent]
    /\ last' = Call("clear", NULL, "none", 0, 0, TRUE)
    /\ clock' = NoClock
    /\ UNCHANGED <<simulator, cols, rows, pre, undo>>
    /\ timers' = timers \cap Referenced(grid', components', powerSources', selectedComponent')

\* setInterval(() => { switchComp.toggle(); }, 1000) of createBlinkingLED: the
\* switch the new timer toggles
StarterTimers(type, w) == IF type = "blinkingLED" THEN {w.components[2]} ELSE {}

\* UIManager.loadStarterCircuit(type)
LoadStarterCircuit(type) ==
    /\ Cardinality(DOMAIN comp \ {selectedComponent}) >= Len(StarterParts(type))
    /\ \E w \in {BuildStarter(type)} :
          /\ grid' = w.grid
          /\ components' = w.components
          /\ powerSources' = w.powerSources
          /\ comp' = w.comp
          /\ timers' = (timers \cap {selectedComponent}) \cup StarterTimers(type, w)
    /\ last' = Call(type, NULL, "none", 0, 0, TRUE)
    /\ clock' = NoClock
    /\ UNCHANGED <<simulator, cols, rows, selectedComponent, pre, undo>>

StarterTypes == {"blinkingLED", "basicAND", "xorDemo", "srFlipFlop"}

\* a componentData entry of a saved circuit: {type, x, y, properties}
Data(kind, x, y, props) == [type |-> kind, x |-> x, y |-> y, properties |-> props]

\* properties objects: "unset" stands for a key that is absent
Props(powered, closed) == [powered |-> powered, closed |-> closed]

\* Component.setProperties and Switch.setProperties
setProperties(rec, props) ==
    [rec EXCEPT !.powered = IF props.powered = "unset" THEN @ ELSE props.powered = "true",
                !.closed  = IF rec.kind = "switch" /\ props.closed # "unset"
                            THEN props.closed = "true" ELSE @]

\* CircuPlay.createComponentFromData
createComponentFromData(w, d) ==
    LET id  == FreshId(w.comp)
        rec == setProperties(NewComponent(d.type, d.x * gridSize, d.y * gridSize), d.properties)
        ok  == d.type \in FactoryKinds /\ placeComponentOk(w.grid, cols, rows, d.type, d.x, d.y)
    IN  IF ~ok THEN w
        ELSE [w EXCEPT !.grid = placeComponentGrid(w.grid, id, d.type, d.x, d.y),
                       !.comp = [@ EXCEPT ![id] = placeComponentFields(rec, d.x, d.y)],
                       !.components = addComponentList(w.components, id),
                       !.powerSources = addComponentSources(w.components, w.powerSources, id, d.type)]

RECURSIVE ImportAll(_, _, _)
\* Grid.import: for (const componentData of data.components)
ImportAll(w, data, i) ==
    IF i > Len(data) THEN w ELSE ImportAll(createComponentFromData(w, data[i]), data, i + 1)

\* the saved circuits handed to importCircuit: an empty one; one as Grid.export
\* writes it (an entry per occupied cell, so two for a gate) with a kind the
\* factory does not know; one with two entries for the same cell
ImportData ==
    { << >>,
      << Data("battery", 0, 0, Props("true", "unset")), Data("switch", 1, 0, Props("false", "true")),
         Data("and-gate", 0, 1, Props("false", "unset")), Data("and-gate", 0, 2, Props("false", "unset")),
         Data("bogus", 1, 1, Props("unset", "unset")) >>,
      << Data("battery", 1, 1, Props("false", "unset")), Data("battery", 1, 1, Props("unset", "unset")),
         Data("battery", 0, 0, Props("unset", "unset")) >> }

\* CircuitSimulator.importCircuit(data), reached from UIManager.loadCircuit
ImportCircuit(data) ==
    /\ Cardinality(DOMAIN comp \ {selectedComponent}) >= Len(data)
    /\ \E w \in {ImportAll(World(clearGrid(grid),
                                 Collect(comp, clearGrid(grid), << >>, << >>, selectedComponent),
                                 << >>, << >>), data, 1)} :
          /\ grid' = w.grid
          /\ components' = w.components
          /\ powerSources' = w.powerSources
          /\ comp' = w.comp
    /\ last' = Call("import", NULL, "none", Len(data), 0, TRUE)
    /\ clock' = NoClock
    /\ simulator' = start(stop(simulator), FALSE).sim
    /\ UNCHANGED <<cols, rows, selectedComponent, pre, undo>>
    /\ timers' = timers \cap Referenced(grid', components', powerSources', selectedComponent')

Next ==
    \/ \E kind \in DropKinds, gx \in 0..MaxDrop, gy \in 0..MaxDrop : PlaceComponent(kind, gx, gy)
    \/ \E id \in OnGrid \cup ({selectedComponent} \ {NULL}) : DeleteComponent(id)
    \/ SelectNextComponent
    \/ ClearCircuit
    \/ \E type \in StarterTypes : LoadStarterCircuit(type)
    \/ \E data \in ImportData : ImportCircuit(data)

Spec == Init /\ [][Next]_vars

(* ---------------------------------------------------------------------- *)
(* Ticks and switches                                                      *)
(* ---------------------------------------------------------------------- *)

\* the counters of clock stop at these values
MaxTicks == 2
MaxToggles == 2

Sat(n, max) == IF n < max THEN n + 1 ELSE max

\* the listed switches that are closed
ClosedSwitches(cm, list) == {id \in Range(list) : cm[id].kind = "switch" /\ cm[id].closed}

\* Switch.toggle
toggle(rec) == [rec EXCEPT !.closed = ~@]

\* CircuitSimulator.simulate when an update is due: updateCircuit()
Tick ==
    /\ simulate(simulator, TRUE).updated
    /\ comp' = updateCircuit(grid, cols, rows, comp, components, powerSources)
    /\ last' = Call("tick", NULL, "none", 0, 0, TRUE)
    /\ clock' = [clock EXCEPT !.ticks = Sat(@, MaxTicks), !.steady = Sat(@, MaxTicks),
                              !.most = IF Cardinality(ClosedSwitches(comp, components)) > @
                                       THEN Cardinality(ClosedSwitches(comp, components)) ELSE @]
    /\ UNCHANGED <<simulator, cols, rows, grid, components, powerSources, selectedComponent, pre, undo, timers>>

\* UIManager.handleCanvasClick with the pointer over cell (gx, gy), not panning
HandleCanvasClick(gx, gy) ==
    LET c        == getComponent(grid, cols, rows, gx, gy)
        isSwitch == c # NULL /\ comp[c].kind = "switch"
        toggled  == IF isSwitch THEN [comp EXCEPT ![c] = toggle(@)] ELSE comp
    IN  /\ selectedComponent' = c
        /\ comp' = Collect(toggled, grid, components, powerSources, c)
        /\ last' = Call("click", c, IF c = NULL THEN "none" ELSE comp[c].kind, gx, gy, TRUE)
        /\ clock' = IF isSwitch THEN [clock EXCEPT !.steady = 0, !.toggles = Sat(@, MaxToggles)]
                    ELSE clock
        /\ UNCHANGED <<simulator, cols, rows, grid, components, powerSources, pre, undo>>
        /\ timers' = timers \cap Referenced(grid', components', powerSources', selectedComponent')

\* the interval callback of createBlinkingLED: switchComp.toggle()
BlinkTimer(id) ==
    /\ comp' = [comp EXCEPT ![id] = toggle(@)]
    /\ last' = Call("timer", id, comp[id].kind, 0, 0, TRUE)
    /\ clock' = [clock EXCEPT !.steady = 0, !.toggles = Sat(@, MaxToggles)]
    /\ UNCHANGED <<simulator, cols, rows, grid, components, powerSources, selectedComponent, pre, undo, timers>>

\* the cells that hold a switch: where the pointer clicks
SwitchCells == {cell \in DOMAIN grid : grid[cell] # NULL /\ comp[grid[cell]].kind = "switch"}

(* ---------------------------------------------------------------------- *)
(* Circuits without gates, ticking                                         *)
(* ---------------------------------------------------------------------- *)

\* the canvas of the drawn circuits, in cells, and the most components drawn
TickCols == 3
TickRows == 2
MaxTickComps == 3

\* the kinds of the saved circuits: every kind of the factory that is not a
\* gate, and "battery-off" for a battery saved with powered: false
TickKinds == {"battery", "battery-off", "wire", "resistor", "switch", "led"}

\* the entry of a saved circuit for a kind at a cell
SavedEntry(kind, cell) ==
    IF kind = "battery-off" THEN Data("battery", cell[1], cell[2], Props("false", "unset"))
    ELSE Data(kind, cell[1], cell[2], Props("unset", "unset"))

\* the cells of a c x r grid, row by row
CellSeq(c, r) == [i \in 1..(c * r) |-> <<(i - 1) % c, (i - 1) \div c>>]

\* a saved circuit with the kinds of layout (a kind for each cell used), its
\* entries row by row as Grid.export writes them
Saved(layout, c, r) ==
    LET used == SelectSeq(CellSeq(c, r), LAMBDA cell : cell \in DOMAIN layout)
    IN  [i \in 1..Len(used) |-> SavedEntry(layout[used[i]], used[i])]

\* the application after it loaded a saved circuit (CircuPlay.loadFromURL)
InitTick ==
    /\ cols = TickCols
    /\ rows = TickRows
    /\ \E used \in {u \in SUBSET DOMAIN EmptyGrid(TickCols, TickRows) : Cardinality(u) <= MaxTickComps} :
       \E layout \in [used -> TickKinds] :
          \E w \in {ImportAll(World(EmptyGrid(TickCols, TickRows),
                                    [id \in 1..MaxTickComps |-> NoComponent], << >>, << >>),
                              Saved(layout, TickCols, TickRows), 1)} :
             /\ grid = w.grid
             /\ comp = w.comp
             /\ components = w.components
             /\ powerSources = w.powerSources
    /\ selectedComponent = NULL
    /\ last = Call("none", NULL, "none", 0, 0, FALSE)
    /\ pre = << >>
    /\ undo = NoUndo
    /\ timers = {}
    /\ clock = NoClock
    /\ simulator = Started

NextTick ==
    \/ Tick
    \/ \E cell \in SwitchCells : HandleCanvasClick(cell[1], cell[2])

SpecTick == InitTick /\ [][NextTick]_vars

(* ---------------------------------------------------------------------- *)
(* The starter circuits, ticking                                           *)
(* ---------------------------------------------------------------------- *)

\* room for a starter circuit next to a selected component of the one before
MaxStarterComps == 9

InitStarter ==
    /\ cols = SimCols
    /\ rows = SimRows
    /\ grid = EmptyGrid(cols, rows)
    /\ comp = [id \in 1..MaxStarterComps |-> NoComponent]
    /\ components = << >>
    /\ powerSources = << >>
    /\ selectedComponent = NULL
    /\ last = Call("none", NULL, "none", 0, 0, FALSE)
    /\ pre = << >>
    /\ undo = NoUndo
    /\ timers = {}
    /\ clock = NoClock
    /\ simulator = Started

NextStarter ==
    \/ \E type \in StarterTypes : LoadStarterCircuit(type)
    \/ Tick
    \/ \E id \in timers : BlinkTimer(id)
    \/ \E cell \in SwitchCells : HandleCanvasClick(cell[1], cell[2])

SpecStarter == InitStarter /\ [][NextStarter]_vars

\* ---- all six starter circuits, on a canvas that holds the widest of them ----

BuilderCols == 10
BuilderRows == 4
MaxBuilderComps == 14

\* the types UIManager.loadStarterCircuit has a case for
BuilderTypes == StarterTypes \cup {"fullAdder", "counter"}

InitBuilders ==
    /\ cols = BuilderCols
    /\ rows = BuilderRows
    /\ grid = EmptyGrid(cols, rows)
    /\ comp = [id \in 1..MaxBuilderComps |-> NoComponent]
    /\ components = << >>
    /\ powerSources = << >>
    /\ selectedComponent = NULL
    /\ last = Call("none", NULL, "none", 0, 0, FALSE)
    /\ pre = << >>
    /\ undo = NoUndo
    /\ timers = {}
    /\ clock = NoClock
    /\ simulator = Started

\* the starters are loaded one after another and their switches are clicked
\* in between; ticks and the interval callbacks of the builders, which run
\* after a builder has returned, are left to SpecStarter
NextBuilders ==
    \/ \E type \in BuilderTypes : LoadStarterCircuit(type)
    \/ \E cell \in SwitchCells : HandleCanvasClick(cell[1], cell[2])

SpecBuilders == InitBuilders /\ [][NextBuilders]_vars

\* ---- moving the selected component with the arrow keys ----

MoveCols == 3
MoveRows == 3
MaxMoveComps == 2

MoveKinds == {"wire", "and-gate"}

\* the arrow keys, as the change they make to (newX, newY)
ArrowKeys == {<<0, -1>>, <<0, 1>>, <<-1, 0>>, <<1, 0>>}

\* a circuit of up to MaxMoveComps components, nothing selected
InitMove ==
    /\ cols = MoveCols
    /\ rows = MoveRows
    /\ \E used \in {u \in SUBSET DOMAIN EmptyGrid(MoveCols, MoveRows) :
                       Cardinality(u) <= MaxMoveComps} :
       \E layout \in [used -> MoveKinds] :
          \E w \in {ImportAll(World(EmptyGrid(MoveCols, MoveRows),
                                    [id \in 1..MaxMoveComps |-> NoComponent], << >>, << >>),
                              Saved(layout, MoveCols, MoveRows), 1)} :
             /\ grid = w.grid
             /\ comp = w.comp
             /\ components = w.components
             /\ powerSources = w.powerSources
    /\ selectedComponent = NULL
    /\ last = Call("none", NULL, "none", 0, 0, FALSE)
    /\ pre = << >>
    /\ undo = NoUndo
    /\ timers = {}
    /\ clock = NoClock
    /\ simulator = Started

\* UIManager.moveSelectedComponent(direction): last.x, last.y are (newX, newY)
\* and last.ok says that the cell there was valid and empty
MoveSelectedComponent(arrow) ==
    LET sel   == selectedComponent
        gx    == pixelToGrid(comp[sel].x)
        gy    == pixelToGrid(comp[sel].y)
        newX  == gx + arrow[1]
        newY  == gy + arrow[2]
        free  == /\ newX >= 0 /\ newX < cols /\ newY >= 0 /\ newY < rows
                 /\ isEmpty(grid, cols, rows, newX, newY)
        taken == removeComponentGrid(grid, cols, rows, comp, gx, gy)
        moved == [comp[sel] EXCEPT !.x = newX * gridSize, !.y = newY * gridSize]
        ok    == placeComponentOk(taken, cols, rows, comp[sel].kind, newX, newY)
    IN  /\ selectedComponent # NULL
        /\ grid' = IF ~free THEN grid
                   ELSE IF ok THEN placeComponentGrid(taken, sel, comp[sel].kind, newX, newY)
                   ELSE taken
        /\ comp' = IF ~free THEN comp
                   ELSE [comp EXCEPT ![sel] = IF ok THEN placeComponentFields(moved, newX, newY)
                                              ELSE moved]
        /\ last' = Call("move", sel, comp[sel].kind, newX, newY, free)
        /\ UNCHANGED <<simulator, cols, rows, components, powerSources, selectedComponent,
                       pre, undo, timers, clock>>

NextMove ==
    \/ \E cell \in DOMAIN grid : HandleCanvasClick(cell[1], cell[2])
    \/ \E arrow \in ArrowKeys : MoveSelectedComponent(arrow)

SpecMove == InitMove /\ [][NextMove]_vars

\* ---- the blinking-LED starter circuit left to run ----

\* the narrowest canvas, in cells, that holds the four parts of createBlinkingLED
MinBlinkCols == 4

\* the application started on a canvas of some size, nothing loaded yet
InitBlink ==
    /\ cols \in MinBlinkCols..SimCols
    /\ rows \in 1..SimRows
    /\ grid = EmptyGrid(cols, rows)
    /\ comp = [id \in 1..MaxStarterComps |-> NoComponent]
    /\ components = << >>
    /\ powerSources = << >>
    /\ selectedComponent = NULL
    /\ last = Call("none", NULL, "none", 0, 0, FALSE)
    /\ pre = << >>
    /\ undo = NoUndo
    /\ timers = {}
    /\ clock = NoClock
    /\ simulator = Started

\* the user picks the blinking-LED starter, once
LoadBlinkingLED ==
    /\ last.op = "none"
    /\ LoadStarterCircuit("blinkingLED")

\* the interval callback fired with no regard to its period
BlinkTimerDue_AtAnyTime(id) == BlinkTimer(id)

\* the interval callback of createBlinkingLED, as the browser schedules it: its
\* period of 1000 ms is ten times the simulator's updateInterval of 100 ms, so
\* while the frame loop runs an update falls between any two of its firings
BlinkTimerDue(id) ==
    /\ clock.steady >= 1
    /\ BlinkTimer(id)

NextBlink ==
    \/ LoadBlinkingLED
    \/ Tick
    \/ \E id \in timers : BlinkTimerDue(id)

\* ENABLED <<Tick>>_vars as a state predicate: the loop is running and an
\* update would change the components, the record of the last call or the clock
TickChanges ==
    /\ simulate(simulator, TRUE).updated
    /\ \/ updateCircuit(grid, cols, rows, comp, components, powerSources) # comp
       \/ last # Call("tick", NULL, "none", 0, 0, TRUE)
       \/ clock.ticks < MaxTicks
       \/ clock.steady < MaxTicks
       \/ Cardinality(ClosedSwitches(comp, components)) > clock.most

\* WF_vars(Tick), written out with TickChanges for ENABLED <<Tick>>_vars
TickKeepsFiring == []<>(~TickChanges) \/ []<><<Tick>>_vars

\* the frame loop and the interval timer both keep firing
SpecBlink ==
    /\ InitBlink
    /\ [][NextBlink]_vars
    /\ TickKeepsFiring
    /\ WF_vars(\E id \in timers : BlinkTimerDue(id))

(* ---------------------------------------------------------------------- *)
(* Circuits with gates, ticking                                            *)
(* ---------------------------------------------------------------------- *)

\* the canvas of the drawn circuits with gates, in cells, and the most
\* components drawn
CircuitCols == 3
CircuitRows == 3
MaxCircuitComps == 3

\* the kinds drawn: a source, a conductor that propagates, one that does not,
\* a gate that is true with one true input, one that is true with a false
\* input, and one that canConduct has no case for and is true without inputs
CircuitKinds == {"battery", "wire", "led", "or-gate", "not-gate", "nor-gate"}

\* the application after it loaded a saved circuit with gates
InitCircuit ==
    /\ cols = CircuitCols
    /\ rows = CircuitRows
    /\ \E used \in {u \in SUBSET DOMAIN EmptyGrid(CircuitCols, CircuitRows) :
                       Cardinality(u) <= MaxCircuitComps} :
       \E layout \in [used -> CircuitKinds] :
          \E w \in {ImportAll(World(EmptyGrid(CircuitCols, CircuitRows),
                                    [id \in 1..MaxCircuitComps |-> NoComponent], << >>, << >>),
                              Saved(layout, CircuitCols, CircuitRows), 1)} :
             /\ grid = w.grid
             /\ comp = w.comp
             /\ components = w.components
             /\ powerSources = w.powerSources
    /\ selectedComponent = NULL
    /\ last = Call("none", NULL, "none", 0, 0, FALSE)
    /\ pre = << >>
    /\ undo = NoUndo
    /\ timers = {}
    /\ clock = NoClock
    /\ simulator = Started

\* CircuitSimulator.validateCircuit, isolatedComponents: the listed components
\* that are no battery and get no neighbour from Grid.getNeighbors
isolatedComponents(g, c, r, cm, list) ==
    SelectSeq(list, LAMBDA id : Len(getNeighbors(g, c, r, cm[id].gridX, cm[id].gridY)) = 0
                                   /\ cm[id].kind # "battery")

\* window.CircuPlayDebug.validateCircuit(): last.x is the number in the
\* isolated-component issue, last.ok says that the issue is reported
ValidateCircuit ==
    /\ last' = Call("validate", NULL, "none",
                    Len(isolatedComponents(grid, cols, rows, comp, components)), 0,
                    Len(isolatedComponents(grid, cols, rows, comp, components)) > 0)
    /\ UNCHANGED <<simulator, cols, rows, grid, comp, components, powerSources, selectedComponent,
                   pre, undo, timers, clock>>

NextCircuit ==
    \/ Tick
    \/ ValidateCircuit

SpecCircuit == InitCircuit /\ [][NextCircuit]_vars

(* ---------------------------------------------------------------------- *)
(* Meshes of wires, batteries and gates, ticking                           *)
(* ---------------------------------------------------------------------- *)

\* the canvas of the drawn meshes, in cells, and the most components drawn:
\* four components close a loop in a square of cells
MeshCols == 3
MeshRows == 2
MaxMeshComps == 4

\* the toolbar entries the meshes are drawn with
MeshKinds == {"battery", "wire", "led", "or-gate", "not-gate"}

\* the application after CircuPlay.loadFromURL has imported a saved mesh
InitMesh ==
    /\ cols = MeshCols
    /\ rows = MeshRows
    /\ \E used \in {u \in SUBSET DOMAIN EmptyGrid(MeshCols, MeshRows) :
                       Cardinality(u) <= MaxMeshComps} :
       \E layout \in [used -> MeshKinds] :
          \E w \in {ImportAll(World(EmptyGrid(MeshCols, MeshRows),
                                    [id \in 1..MaxMeshComps |-> NoComponent], << >>, << >>),
                              Saved(layout, MeshCols, MeshRows), 1)} :
             /\ grid = w.grid
             /\ comp = w.comp
             /\ components = w.components
             /\ powerSources = w.powerSources
    /\ selectedComponent = NULL
    /\ last = Call("none", NULL, "none", 0, 0, FALSE)
    /\ pre = << >>
    /\ undo = NoUndo
    /\ timers = {}
    /\ clock = NoClock
    /\ simulator = Started

NextMesh == Tick

SpecMesh == InitMesh /\ [][NextMesh]_vars

(* ---------------------------------------------------------------------- *)
(* The simulator started and stopped over the starter circuits             *)
(* ---------------------------------------------------------------------- *)

\* what a call of simulate leaves: r is what simulate returned, the circuit
\* is updated when r says so
Simulated(r) ==
    /\ simulator' = r.sim
    /\ comp' = IF r.updated
               THEN updateCircuit(grid, cols, rows, comp, components, powerSources)
               ELSE comp
    /\ clock' = IF r.updated
                THEN [clock EXCEPT !.ticks = Sat(@, MaxTicks), !.steady = Sat(@, MaxTicks)]
                ELSE clock

\* CircuitSimulator.start, called while fewer than MaxFrames frames are to come
Start ==
    /\ Cardinality(simulator.frames) < MaxFrames
    /\ \E due \in BOOLEAN :
          /\ Simulated(start(simulator, due))
          /\ last' = Call("start", NULL, "none", 0, 0, start(simulator, due).updated)
    /\ UNCHANGED <<cols, rows, grid, components, powerSources, selectedComponent, pre, undo, timers>>

\* CircuitSimulator.stop
Stop ==
    /\ simulator' = stop(simulator)
    /\ last' = Call("stop", NULL, "none", 0, 0, FALSE)
    /\ UNCHANGED <<cols, rows, grid, comp, components, powerSources, selectedComponent, pre, undo,
                   timers, clock>>

\* the browser runs the callback of a requested frame: () => this.simulate()
Frame(handle) ==
    /\ handle \in simulator.frames
    /\ \E due \in BOOLEAN :
          /\ Simulated(simulate([simulator EXCEPT !.frames = @ \ {handle}], due))
          /\ last' = Call("frame", NULL, "none", handle, 0,
                          simulate([simulator EXCEPT !.frames = @ \ {handle}], due).updated)
    /\ UNCHANGED <<cols, rows, grid, components, powerSources, selectedComponent, pre, undo, timers>>

NextLoop ==
    \/ \E type \in StarterTypes : LoadStarterCircuit(type)
    \/ Start
    \/ Stop
    \/ \E handle \in simulator.frames : Frame(handle)

SpecLoop == InitStarter /\ [][NextLoop]_vars

(* ---------------------------------------------------------------------- *)
(* Circuits shared: exported and imported again                            *)
(* ---------------------------------------------------------------------- *)

\* the canvas of the shared circuits, in cells, and the most components drawn
ShareCols == 2
ShareRows == 2
MaxShareComps == 2

\* the toolbar entries the shared circuits are drawn with
ShareKinds == {"battery", "switch", "led", "and-gate"}

\* Component.getProperties and Switch.getProperties
getProperties(rec) ==
    Props(IF rec.powered THEN "true" ELSE "false",
          IF rec.kind = "switch" THEN (IF rec.closed THEN "true" ELSE "false") ELSE "unset")

\* Grid.export, its components array: an entry for every occupied cell, row
\* by row
exportGrid(g, c, r, cm) ==
    LET used == SelectSeq(CellSeq(c, r), LAMBDA cell : g[cell] # NULL)
    IN  [i \in 1..Len(used) |->
            Data(cm[g[used[i]]].kind, used[i][1], used[i][2], getProperties(cm[g[used[i]]]))]

\* CircuitSimulator.exportCircuit
exportCircuit(g, c, r, cm) == exportGrid(g, c, r, cm)

\* the application after CircuPlay.loadFromURL has imported a saved circuit
InitShare ==
    /\ cols = ShareCols
    /\ rows = ShareRows
    /\ \E used \in {u \in SUBSET DOMAIN EmptyGrid(ShareCols, ShareRows) :
                       Cardinality(u) <= MaxShareComps} :
       \E layout \in [used -> ShareKinds] :
          \E w \in {ImportAll(World(EmptyGrid(ShareCols, ShareRows),
                                    [id \in 1..(ShareCols * ShareRows + 1) |-> NoComponent],
                                    << >>, << >>),
                              Saved(layout, ShareCols, ShareRows), 1)} :
             /\ grid = w.grid
             /\ comp = w.comp
             /\ components = w.components
             /\ powerSources = w.powerSources
    /\ selectedComponent = NULL
    /\ last = Call("none", NULL, "none", 0, 0, FALSE)
    /\ pre = << >>
    /\ undo = NoUndo
    /\ timers = {}
    /\ clock = NoClock
    /\ simulator = Started

\* UIManager.handleResize with a container of w x h pixels
HandleResize(w, h) ==
    /\ cols' = w \div gridSize
    /\ rows' = h \div gridSize
    /\ grid' = resizeGrid(grid, cols, rows, cols', rows')
    /\ last' = Call("resize", NULL, "none", w, h, TRUE)
    /\ UNCHANGED <<simulator, comp, components, powerSources, selectedComponent, pre, undo,
                   timers, clock>>

NextShare ==
    \/ Tick
    \/ \E cell \in SwitchCells : HandleCanvasClick(cell[1], cell[2])
    \/ \E w \in ResizePixels(ShareCols), h \in ResizePixels(ShareRows) : HandleResize(w, h)
    \/ ImportCircuit(exportCircuit(grid, cols, rows, comp))

SpecShare == InitShare /\ [][NextShare]_vars

(* ---------------------------------------------------------------------- *)
(* Circuit data from outside: the share URL and the imported file          *)
(* ---------------------------------------------------------------------- *)

\* circuit data that reaches the application from outside: the saved circuits
\* of ImportData, and two with an entry whose type is missing or empty (""),
\* the second with a battery entry after it
ExternalData ==
    ImportData \cup
    { << Data("", 0, 0, Props("unset", "unset")) >>,
      << Data("", 0, 0, Props("unset", "unset")), Data("battery", 1, 0, Props("unset", "unset")) >> }

\* StorageManager.validateImportData, the loop over data.data.components: x
\* and y of an entry of the model are numbers
validateImportData(data) == \A i \in 1..Len(data) : data[i].type # ""

\* CircuPlay.loadFromURL, called once by CircuPlay.init: the circuit of the
\* URL parameter goes to importCircuit as StorageManager.loadFromURL decoded it
LoadFromURL(data) ==
    /\ last.op = "none"
    /\ ImportCircuit(data)

\* UIManager.importCircuit(file): StorageManager.importFromFile resolves with
\* the data it validated, and loadCircuit passes it on to importCircuit ...
ImportFromFileAccepted(data) ==
    /\ validateImportData(data)
    /\ ImportCircuit(data)

\* ... or it rejects, and the handler shows a message
ImportFromFileRejected(data) ==
    /\ ~validateImportData(data)
    /\ last' = Call("reject", NULL, "none", Len(data), 0, FALSE)
    /\ UNCHANGED <<simulator, cols, rows, grid, comp, components, powerSources, selectedComponent,
                   pre, undo, timers, clock>>

NextImport ==
    \/ \E data \in ExternalData : LoadFromURL(data)
    \/ \E data \in ExternalData : ImportFromFileAccepted(data)
    \/ \E data \in ExternalData : ImportFromFileRejected(data)
    \/ \E type \in StarterTypes : LoadStarterCircuit(type)
    \/ \E cell \in SwitchCells : HandleCanvasClick(cell[1], cell[2])
    \/ Tick

SpecImport == InitStarter /\ [][NextImport]_vars

(* ---------------------------------------------------------------------- *)
(* One component: update, canConduct and shouldPropagate as functions      *)
(* ---------------------------------------------------------------------- *)

\* the longest inputs array of a gate
MaxInputs == 2

\* the type strings canConduct and shouldPropagate have a case for and the
\* factory has none for, and a type string nothing knows
OtherKinds == {"push-button", "buzzer", "bogus"}

BoolSeqs(n) == UNION {[1..k -> BOOLEAN] : k \in 0..n}

\* the objects of one kind, in every state of the fields the kind uses
ObjectsOf(kind) ==
    IF IsLogicGate(kind)
    THEN {[NewComponent(kind, 0, 0) EXCEPT !.powered = p, !.output = o, !.inputs = in] :
             p \in BOOLEAN, o \in BOOLEAN, in \in BoolSeqs(MaxInputs)}
    ELSE IF kind \in {"switch", "push-button"}
    THEN {[NewComponent(kind, 0, 0) EXCEPT !.powered = p, !.closed = cl] : p \in BOOLEAN, cl \in BOOLEAN}
    ELSE IF kind = "battery" THEN {NewComponent(kind, 0, 0)}
    ELSE {[NewComponent(kind, 0, 0) EXCEPT !.powered = p] : p \in BOOLEAN}

InitParts ==
    /\ cols = 1
    /\ rows = 1
    /\ grid = EmptyGrid(cols, rows)
    /\ \E kind \in FactoryKinds \cup OtherKinds : \E rec \in ObjectsOf(kind) : comp = [id \in {1} |-> rec]
    /\ components = << >>
    /\ powerSources = << >>
    /\ selectedComponent = NULL
    /\ last = Call("none", NULL, "none", 0, 0, FALSE)
    /\ pre = << >>
    /\ undo = NoUndo
    /\ timers = {}
    /\ clock = NoClock
    /\ simulator = Constructed

\* component.update()
UpdateComponent(id) ==
    /\ comp[id].kind \in FactoryKinds
    /\ comp' = [comp EXCEPT ![id] = update(@)]
    /\ last' = Call("update", id, comp[id].kind, 0, 0, TRUE)
    /\ UNCHANGED <<simulator, cols, rows, grid, components, powerSources, selectedComponent, pre, undo, timers, clock>>

\* simulator.canConduct(component): last.ok is what it returned
CanConduct(id) ==
    /\ last' = Call("canConduct", id, comp[id].kind, 0, 0, canConduct(comp[id]))
    /\ UNCHANGED <<simulator, cols, rows, grid, comp, components, powerSources, selectedComponent, pre, undo,
                   timers, clock>>

\* simulator.shouldPropagate(component): last.ok is what it returned
ShouldPropagate(id) ==
    /\ last' = Call("shouldPropagate", id, comp[id].kind, 0, 0, shouldPropagate(comp[id]))
    /\ UNCHANGED <<simulator, cols, rows, grid, comp, components, powerSources, selectedComponent, pre, undo,
                   timers, clock>>

\* ComponentFactory.create(type, x, y): the new object, or NoComponent for null
create(type, px, py) == IF type \in FactoryKinds THEN NewComponent(type, px, py) ELSE NoComponent

\* ComponentFactory.create(type, 0, 0): last.c is the object it returned, which
\* takes the place of the one held, or NULL
CreateComponent(type) ==
    /\ comp' = IF create(type, 0, 0) # NoComponent THEN [comp EXCEPT ![1] = create(type, 0, 0)] ELSE comp
    /\ last' = Call("create", IF create(type, 0, 0) # NoComponent THEN 1 ELSE NULL, type, 0, 0,
                    create(type, 0, 0) # NoComponent)
    /\ UNCHANGED <<simulator, cols, rows, grid, components, powerSources, selectedComponent, pre, undo,
                   timers, clock>>

NextParts ==
    \/ \E type \in FactoryKinds \cup OtherKinds : CreateComponent(type)
    \/ \E id \in DOMAIN comp : UpdateComponent(id)
    \/ \E id \in DOMAIN comp : CanConduct(id)
    \/ \E id \in DOMAIN comp : ShouldPropagate(id)

SpecParts == InitParts /\ [][NextParts]_vars

(* ---------------------------------------------------------------------- *)
(* Claims about the grid                                                   *)
(* ---------------------------------------------------------------------- *)

\* the footprint of a component of this kind anchored at (gx, gy) has a cell
\* that is outside the cell array g or holds a component
Blocked(g, kind, gx, gy) ==
    \E cell \in {<<gx, gy>>} \cup (IF kind \in GateKinds THEN {<<gx, gy + 1>>} ELSE {}) :
        cell \notin DOMAIN g \/ g[cell] # NULL

\* C1: placeComponent on a footprint with an occupied or out-of-grid cell
\* returns false, changes no cell and no field of any component, and the same
\* call made again would return false again.
C1_FailedPlaceChangesNothing ==
    (last.op = "place" /\ Blocked(pre.grid, pre.comp[last.c].kind, last.x, last.y))
        => /\ ~last.ok
           /\ grid = pre.grid
           /\ comp = pre.comp
           /\ ~placeComponentOk(grid, cols, rows, comp[last.c].kind, last.x, last.y)

\* a two-cell gate was refused at a free origin cell because its second cell is
\* occupied by another component
C1_Witness ==
    /\ last.op = "place"
    /\ ~last.ok
    /\ comp[last.c].kind \in GateKinds
    /\ <<last.x, last.y>> \in DOMAIN grid
    /\ <<last.x, last.y + 1>> \in DOMAIN grid
    /\ grid[<<last.x, last.y>>] = NULL
    /\ grid[<<last.x, last.y + 1>>] # NULL

\* C2: removeComponent at the origin right after a successful placeComponent
\* returns the component placed and gives back the grid of before the placement.
C2_PlaceThenRemoveRestores ==
    undo.active => (last.ret = undo.c /\ grid = undo.grid)

\* a two-cell gate was placed beside another component and removed again
C2_Witness ==
    /\ undo.active
    /\ comp[undo.c].kind \in GateKinds
    /\ OnGrid # {}

\* C4: removeComponent on an empty cell or outside the grid returns null and
\* changes nothing.
C4_InvalidRemovalChangesNothing ==
    (last.op = "remove"
        /\ (<<last.x, last.y>> \notin DOMAIN pre.grid \/ pre.grid[<<last.x, last.y>>] = NULL))
        => (last.ret = NULL /\ grid = pre.grid /\ comp = pre.comp)

\* a removal outside a grid that holds a component in the nearest cell
C4_Witness ==
    /\ last.op = "remove"
    /\ last.ret = NULL
    /\ last.x = cols
    /\ last.y \in 0..(rows - 1)
    /\ grid[<<cols - 1, last.y>>] # NULL

\* C3 (as claimed): removeComponent on a cell of a multi-cell component clears
\* every cell that component occupied, changes no other cell, and returns it.
C3_RemoveClearsOnlyOwnCells ==
    (last.op = "remove" /\ last.ret # NULL /\ comp[last.ret].kind \in GateKinds)
        => /\ last.ret = pre.grid[<<last.x, last.y>>]
           /\ \A cell \in DOMAIN grid :
                 grid[cell] = IF pre.grid[cell] = last.ret THEN NULL ELSE pre.grid[cell]

\* C5 (as claimed): (a) every occupied cell is covered by the footprint of the
\* component it holds; (b) the footprints of two components on the grid are
\* disjoint.
C5_FootprintInvariant ==
    /\ \A cell \in DOMAIN grid : grid[cell] # NULL => cell \in Footprint(grid[cell])
    /\ \A a \in OnGrid, b \in OnGrid : a # b => Footprint(a) \cap Footprint(b) = {}

(* ---------------------------------------------------------------------- *)
(* Claims about the simulator's lists and deletion                         *)
(* ---------------------------------------------------------------------- *)

\* C6: the source list holds exactly the batteries of the component list,
\* each once, and the component list holds no component twice.
C6_SourcesAreTheBatteries ==
    /\ \A i \in 1..Len(powerSources), j \in 1..Len(powerSources) :
          powerSources[i] = powerSources[j] => i = j
    /\ Range(powerSources) = {id \in Range(components) : comp[id].kind = "battery"}

\* a battery has just been deleted from a circuit that keeps another battery
\* and components that are no battery
C6_Witness ==
    /\ last.op = "delete"
    /\ last.kind = "battery"
    /\ Len(powerSources) >= 1
    /\ Len(components) >= Len(powerSources) + 2

\* C7 (as claimed): after deleteComponent(c), c occupies no cell and is in
\* neither list, and every other component occupies the cells it occupied and
\* is in the lists it was in.
C7_DeleteRemovesOnlyThatComponent ==
    [][ last'.op = "delete" =>
          LET c == last'.c IN
          /\ \A cell \in DOMAIN grid' :
                grid'[cell] = IF grid[cell] = c THEN NULL ELSE grid[cell]
          /\ components' = SelectSeq(components, LAMBDA e : e # c)
          /\ powerSources' = SelectSeq(powerSources, LAMBDA e : e # c)
      ]_vars

(* ---------------------------------------------------------------------- *)
(* Claims about a tick                                                     *)
(* ---------------------------------------------------------------------- *)

\* the listed components in the four cells around a component
AdjacentTo(id) ==
    {other \in Range(components) :
        \E cell \in CellsOf(other) :
            \/ cell[2] = comp[id].gridY /\ (cell[1] = comp[id].gridX - 1 \/ cell[1] = comp[id].gridX + 1)
            \/ cell[1] = comp[id].gridX /\ (cell[2] = comp[id].gridY - 1 \/ cell[2] = comp[id].gridY + 1)}

Batteries == {id \in Range(components) : comp[id].kind = "battery"}

\* it conducts: a battery, a wire, a resistor, an LED or a closed switch
Conducts(id) ==
    \/ comp[id].kind \in {"battery", "wire", "resistor", "led"}
    \/ comp[id].kind = "switch" /\ comp[id].closed

\* it conducts and propagates further: a wire, a resistor or a closed switch
Carries(id) ==
    \/ comp[id].kind \in {"wire", "resistor"}
    \/ comp[id].kind = "switch" /\ comp[id].closed

RECURSIVE ReachedFrom(_)
\* the batteries and what a chain of adjacent carrying components reaches from them
ReachedFrom(S) ==
    LET more == {id \in Range(components) : Carries(id) /\ AdjacentTo(id) \cap S # {}}
    IN  IF more \subseteq S THEN S ELSE ReachedFrom(S \cup more)

NoGates == \A id \in Range(components) : ~IsLogicGate(comp[id].kind)

AllOnGrid == \A id \in Range(components) : CellsOf(id) = Footprint(id)

\* C8 (as claimed): in a circuit without gates whose listed components are
\* all on the grid, after one updateCircuit every battery is powered, and a
\* component that is not a battery is powered if and only if it conducts and
\* is adjacent to a battery or to a component that a chain of adjacent
\* conducting and propagating components reaches from a battery.
C8_PoweredIffFedByBattery ==
    (last.op = "tick" /\ NoGates /\ AllOnGrid) =>
        \A id \in Range(components) :
            comp[id].powered = IF comp[id].kind = "battery" THEN TRUE
                               ELSE Conducts(id) /\ AdjacentTo(id) \cap ReachedFrom(Batteries) # {}

\* the circuit is a row Battery, Switch, LED and nothing else
IsRow(y) ==
    /\ Len(components) = 3
    /\ \A x \in 0..2 : getComponent(grid, cols, rows, x, y) # NULL
    /\ comp[getComponent(grid, cols, rows, 0, y)].kind = "battery"
    /\ comp[getComponent(grid, cols, rows, 1, y)].kind = "switch"
    /\ comp[getComponent(grid, cols, rows, 2, y)].kind = "led"

\* C9 (as claimed): in a row Battery, Switch, LED, a tick taken while the
\* switch is open leaves the switch and the LED unpowered, also after the
\* switch was closed and opened again, and the first tick after the switch
\* was toggled closed leaves the battery, the switch and the LED powered.
C9_RowFollowsSwitch ==
    \A y \in 0..(rows - 1) :
        (last.op = "tick" /\ IsRow(y)) =>
            LET b == comp[getComponent(grid, cols, rows, 0, y)]
                s == comp[getComponent(grid, cols, rows, 1, y)]
                l == comp[getComponent(grid, cols, rows, 2, y)]
            IN  /\ ~s.closed => (~s.powered /\ ~l.powered)
                /\ (s.closed /\ clock.toggles >= 1 /\ clock.steady = 1) =>
                       (b.powered /\ s.powered /\ l.powered)

\* the circuit on the grid is the one createBasicANDGate builds
IsBasicAND ==
    /\ Len(components) = Len(StarterParts("basicAND"))
    /\ \A i \in 1..Len(StarterParts("basicAND")) :
          LET part == StarterParts("basicAND")[i] IN
          /\ components[i] = getComponent(grid, cols, rows, part.gx, part.gy)
          /\ comp[components[i]].kind = part.kind

\* C10: in the basic AND-gate circuit, after two or more ticks in a row with
\* both switches closed the LED is powered, and as long as no tick since the
\* circuit was built saw more than one switch closed, the LED is unpowered
\* after every tick.
C10_ANDGateDrivesLED ==
    (IsBasicAND /\ last.op = "tick") =>
        LET led == comp[getComponent(grid, cols, rows, 4, 1)] IN
        /\ (Cardinality(ClosedSwitches(comp, components)) = 2 /\ clock.steady >= 2) => led.powered
        /\ clock.most <= 1 => ~led.powered

\* two ticks after both switches were closed, the LED is lit
C10_Witness ==
    /\ IsBasicAND
    /\ last.op = "tick"
    /\ Cardinality(ClosedSwitches(comp, components)) = 2
    /\ clock.steady >= 2
    /\ clock.ticks >= 2
    /\ comp[getComponent(grid, cols, rows, 4, 1)].powered

(* ---------------------------------------------------------------------- *)
(* Claims about the gates                                                  *)
(* ---------------------------------------------------------------------- *)

\* the listed gates, in the order updateLogicGates takes them
GatesOf(cm, list) == SelectSeq(list, LAMBDA id : IsLogicGate(cm[id].kind))

\* the components of this state as a tick has them when it collects the inputs
\* of the i-th gate: reset, powered from the sources, the gates before it updated
BeforeGate(i) ==
    updateLogicGates(grid, cols, rows,
                     PowerSourcesFrom(grid, cols, rows, ResetAll(comp, components), powerSources, 1),
                     SubSeq(GatesOf(comp, components), 1, i - 1), 1)

\* the powered flags of the components in the cell left of a gate's top cell
\* and in the cell left of its bottom cell, top first; an empty cell gives none
InputsLeftOfFootprint(cm, id) ==
    LET top    == getComponent(grid, cols, rows, cm[id].gridX - 1, cm[id].gridY)
        bottom == getComponent(grid, cols, rows, cm[id].gridX - 1, cm[id].gridY + gridHeight(cm[id].kind) - 1)
        read   == SelectSeq(<<top, bottom>>, LAMBDA e : e # NULL)
    IN  [i \in 1..Len(read) |-> cm[read[i]].powered]

\* C11 (as claimed): a tick leaves in every gate's inputs the powered flags of
\* the components left of its top cell and left of its bottom cell, top first,
\* at most two values, none for an empty cell.
C11_InputsLeftOfTopAndBottomCell ==
    [][ last'.op = "tick" =>
          \A i \in 1..Len(GatesOf(comp, components)) :
              comp'[GatesOf(comp, components)[i]].inputs
                  = InputsLeftOfFootprint(BeforeGate(i), GatesOf(comp, components)[i]) ]_vars

\* the table of the gates: the output for a kind and an inputs array
GateTable(kind, in) ==
    CASE kind = "and-gate"  -> Len(in) >= 2 /\ in[1] /\ in[2]
      [] kind = "or-gate"   -> \E i \in 1..Len(in) : in[i]
      [] kind = "not-gate"  -> Len(in) >= 1 /\ ~in[1]
      [] kind = "xor-gate"  -> Len(in) >= 2 /\ in[1] # in[2]
      [] kind = "nand-gate" -> Len(in) < 2 \/ ~(in[1] /\ in[2])
      [] kind = "nor-gate"  -> Len(in) < 2 \/ ~(in[1] \/ in[2])

\* C12: LogicGate.update leaves output as the table gives it for the gate's
\* kind and inputs, under-supplied inputs included, and powered equal to output.
C12_UpdateFollowsTable ==
    \A id \in DOMAIN comp :
        (last.op = "update" /\ last.c = id /\ IsLogicGate(comp[id].kind)) =>
            /\ comp[id].output = GateTable(comp[id].kind, comp[id].inputs)
            /\ comp[id].powered = comp[id].output

\* a NAND gate without inputs was updated: its output is true
C12_Witness ==
    /\ last.op = "update"
    /\ comp[last.c].kind = "nand-gate"
    /\ comp[last.c].inputs = << >>
    /\ comp[last.c].output
    /\ comp[last.c].powered

(* ---------------------------------------------------------------------- *)
(* Claims about canConduct and shouldPropagate                             *)
(* ---------------------------------------------------------------------- *)

\* C13 (as claimed): canConduct is true for a battery, a wire, a resistor, an
\* LED, a buzzer and a gate of every kind, the closed flag for a switch and a
\* push-button, and false for every other kind.
C13_CanConductTable ==
    (last.op = "canConduct") =>
        last.ok = CASE last.kind \in {"battery", "wire", "resistor", "led", "buzzer"} -> TRUE
                    [] last.kind \in {"and-gate", "or-gate", "not-gate",
                                      "xor-gate", "nand-gate", "nor-gate"} -> TRUE
                    [] last.kind \in {"switch", "push-button"} -> comp[last.c].closed
                    [] OTHER -> FALSE

\* C14 (as claimed): shouldPropagate is true for a wire and a resistor, the
\* closed flag for a switch and a push-button, the current output for a gate
\* of every kind, and false for a battery, an LED, a buzzer and unknown kinds.
C14_ShouldPropagateTable ==
    (last.op = "shouldPropagate") =>
        last.ok = CASE last.kind \in {"wire", "resistor"} -> TRUE
                    [] last.kind \in {"switch", "push-button"} -> comp[last.c].closed
                    [] last.kind \in {"and-gate", "or-gate", "not-gate",
                                      "xor-gate", "nand-gate", "nor-gate"} -> comp[last.c].output
                    [] OTHER -> FALSE

(* ---------------------------------------------------------------------- *)
(* Claims about the propagation                                            *)
(* ---------------------------------------------------------------------- *)

\* the components of this state as a tick has them when its fourth loop comes
\* to the i-th gate: every gate updated, the gates before it propagated from
BeforeDrive(i) ==
    PowerGatesFrom(grid, cols, rows, BeforeGate(Len(GatesOf(comp, components)) + 1),
                   SubSeq(GatesOf(comp, components), 1, i - 1), 1)

\* the components after a propagation that leaves gate id through its output
\* terminal and through no other cell
ThroughTerminal(cm, id) ==
    LET out == getComponent(grid, cols, rows, cm[id].gridX + 1, cm[id].gridY + 1)
    IN  IF out = NULL THEN cm
        ELSE PowerOne(grid, cols, rows,
                      [cm |-> cm, visited |-> {id}, trail |-> <<id>>, dirs |-> directions], out).cm

\* C15 (as claimed): the propagation a tick starts from a gate whose output is
\* true powers only what it reaches through the gate's output terminal; the
\* components left of, above and below the gate are not powered by it.
C15_GateDrivesThroughTerminalOnly ==
    \A i \in 1..Len(GatesOf(comp, components)) :
        \A n \in DOMAIN comp :
            (BeforeDrive(i)[GatesOf(comp, components)[i]].output
               /\ PowerFrom(grid, cols, rows, BeforeDrive(i), GatesOf(comp, components)[i])[n].powered)
            => ThroughTerminal(BeforeDrive(i), GatesOf(comp, components)[i])[n].powered

(* ---------------------------------------------------------------------- *)
(* Claims about gates that feed gates                                      *)
(* ---------------------------------------------------------------------- *)

\* updateLogicGates, inputPositions: the cells gate b collects its inputs from
inputPositions(cm, b) ==
    << <<cm[b].gridX - 1, cm[b].gridY>>, <<cm[b].gridX - 1, cm[b].gridY + 2>> >>

\* a wire lies at the output terminal of gate a, in the k-th input cell of gate b
Wired(a, b, k) ==
    /\ IsLogicGate(comp[a].kind) /\ IsLogicGate(comp[b].kind)
    /\ inputPositions(comp, b)[k] = <<comp[a].gridX + 1, comp[a].gridY + 1>>
    /\ getComponent(grid, cols, rows, comp[a].gridX + 1, comp[a].gridY + 1) \notin {NULL, a, b}
    /\ comp[getComponent(grid, cols, rows, comp[a].gridX + 1, comp[a].gridY + 1)].kind = "wire"

\* where in its inputs array gate b has the value of its k-th input cell
InputIndex(b, k) ==
    IF k = 2 /\ getComponent(grid, cols, rows, inputPositions(comp, b)[1][1],
                                                inputPositions(comp, b)[1][2]) \notin {NULL, b}
    THEN 2 ELSE 1

\* C16 (as claimed): with a wire from gate A's output terminal in an input cell
\* of gate B, the value B reads there in a tick is A's output of the tick
\* before, whatever A's kind and whether or not battery power reaches A.
C16_GateReadsLastOutputOfFeedingGate ==
    [][ (last'.op = "tick" /\ clock.ticks >= 1) =>
          \A a, b \in Range(components) : \A k \in 1..2 :
              Wired(a, b, k) => comp'[b].inputs[InputIndex(b, k)] = comp[a].output ]_vars

(* ---------------------------------------------------------------------- *)
(* Claims about the order of the propagation                               *)
(* ---------------------------------------------------------------------- *)

\* the sequences that hold the elements of seq in some order
Orders(seq) ==
    { [i \in 1..Len(seq) |-> seq[f[i]]] :
          f \in {h \in [1..Len(seq) -> 1..Len(seq)] : \A i, j \in 1..Len(seq) : h[i] = h[j] => i = j} }

\* the components that are powered
PoweredSet(cm) == {id \in DOMAIN cm : cm[id].powered}

NoRepeat(seq) == \A i, j \in 1..Len(seq) : seq[i] = seq[j] => i = j

\* the components propagatePower(s, new Set()) expands in this state, in the
\* order it expands them
Expanded(s) == Propagation(directions, grid, cols, rows, comp, s).trail

\* C18: propagatePower called with any component of the circuit and an empty
\* visited set comes to an end, and it expands (examines the neighbours of) no
\* component twice: at most as many expansions as there are components.
C18_EachComponentExpandedOnce ==
    \A s \in Range(components) :
        /\ NoRepeat(Expanded(s))
        /\ Range(Expanded(s)) \subseteq Range(components)
        /\ Len(Expanded(s)) <= Len(components)

\* after a tick, the propagation from a battery runs round a closed loop that
\* holds a gate: it expands four components, a gate among them, and the last
\* one it expands has two neighbours that were expanded before it
C18_Witness ==
    /\ last.op = "tick"
    /\ \E s \in Range(powerSources) :
           /\ Len(Expanded(s)) = 4
           /\ \E i \in 1..4 : IsLogicGate(comp[Expanded(s)[i]].kind)
           /\ Cardinality(Range(getNeighbors(grid, cols, rows, comp[Expanded(s)[4]].gridX,
                                             comp[Expanded(s)[4]].gridY))
                              \cap Range(SubSeq(Expanded(s), 1, 3))) >= 2

(* ---------------------------------------------------------------------- *)
(* Claims about the simulator's loop                                       *)
(* ---------------------------------------------------------------------- *)

\* C19: start() leaves the simulator running and stop() leaves it stopped, and
\* whatever the sequence of start(), stop() and frame callbacks, updateCircuit
\* is called only while the simulator is running.
C19_UpdatesOnlyWhileRunning ==
    [][ /\ last'.op = "start" => simulator'.running
        /\ last'.op = "stop" => ~simulator'.running
        /\ (last'.op \in {"start", "frame"} /\ last'.ok) => simulator'.running ]_vars

\* the simulator was started again while it ran and then stopped: the frame
\* of the earlier start was still to come, and its callback has just run on
\* the stopped simulator without updating the circuit
C19_Witness ==
    /\ last.op = "frame"
    /\ ~last.ok
    /\ ~simulator.running
    /\ simulator.animationId = NULL
    /\ clock.ticks >= 1

(* ---------------------------------------------------------------------- *)
(* Claims about Grid.resize                                                *)
(* ---------------------------------------------------------------------- *)

\* C20: Grid.resize leaves in every cell that lies within the old and the new
\* bounds what the cell held, and leaves every other cell of the new grid
\* empty; when a resize follows a resize, the cells the first one dropped and
\* the second one brings back are empty.
C20_ResizeKeepsSharedCellsOnly ==
    [][ last'.op = "resize" =>
          /\ DOMAIN grid' = (0..(cols' - 1)) \X (0..(rows' - 1))
          /\ \A cell \in DOMAIN grid' :
                 grid'[cell] = IF cell \in DOMAIN grid THEN grid[cell] ELSE NULL
          /\ last.op = "resize" =>
                 \A cell \in (DOMAIN pre.grid \ DOMAIN grid) \cap DOMAIN grid' :
                     grid'[cell] = NULL ]_vars

\* the grid was enlarged by a row after a shrink had cut a gate in two: the
\* gate still holds its upper cell in the last row of the grid before, its
\* lower cell went with the shrink, and that cell is in the grid again, empty
C20_Witness ==
    /\ last.op = "resize"
    /\ rows > pre.rows
    /\ \E x \in 0..(pre.cols - 1) :
           /\ <<x, pre.rows>> \in DOMAIN grid
           /\ pre.grid[<<x, pre.rows - 1>>] # NULL
           /\ comp[pre.grid[<<x, pre.rows - 1>>]].kind \in GateKinds
           /\ comp[pre.grid[<<x, pre.rows - 1>>]].gridY = pre.rows - 1
           /\ grid[<<x, pre.rows - 1>>] = pre.grid[<<x, pre.rows - 1>>]
           /\ grid[<<x, pre.rows>>] = NULL

(* ---------------------------------------------------------------------- *)
(* Claims about export and import                                          *)
(* ---------------------------------------------------------------------- *)

\* grid g2 with components cm2 and the component list list2 is grid g1 with
\* components cm1 again: the same cells occupied, by a component of the same
\* kind, origin cell and closed flag, with the same cells sharing a component,
\* and the list holds the occupants of g2, each once
SameCircuit(g1, cm1, g2, cm2, list2) ==
    /\ DOMAIN g2 = DOMAIN g1
    /\ \A cell \in DOMAIN g1 :
           IF g1[cell] = NULL THEN g2[cell] = NULL
           ELSE /\ g2[cell] # NULL
                /\ cm2[g2[cell]].kind = cm1[g1[cell]].kind
                /\ cm2[g2[cell]].gridX = cm1[g1[cell]].gridX
                /\ cm2[g2[cell]].gridY = cm1[g1[cell]].gridY
                /\ cm2[g2[cell]].closed = cm1[g1[cell]].closed
    /\ \A a, b \in DOMAIN g1 : (g1[a] = g1[b]) <=> (g2[a] = g2[b])
    /\ Range(list2) = {g2[cell] : cell \in DOMAIN g2} \ {NULL}
    /\ \A i, j \in 1..Len(list2) : list2[i] = list2[j] => i = j

\* C21 (as claimed): importCircuit of what exportCircuit has just returned
\* builds the circuit again: the same kinds at the same origin cells with the
\* same footprints and closed flags, nothing more, and the component list
\* holds exactly these components.
C21_ExportImportRebuildsCircuit ==
    [][ last'.op = "import" => SameCircuit(grid, comp, grid', comp', components') ]_vars

\* the same for the circuits in which every gate holds both cells of its
\* footprint
C21_WholeGatesRebuilt ==
    [][ (last'.op = "import" /\ \A id \in OnGrid : CellsOf(id) = Footprint(id))
            => SameCircuit(grid, comp, grid', comp', components') ]_vars

\* C22 (as claimed): whichever way circuit data comes in, by the share URL or
\* by an imported file, data that validateImportData refuses leaves the grid,
\* the components and the simulator's lists as they were.
C22_RefusedDataChangesNothing ==
    [][ \A data \in ExternalData :
            (~validateImportData(data)
               /\ (LoadFromURL(data) \/ ImportFromFileAccepted(data) \/ ImportFromFileRejected(data)))
            => UNCHANGED <<grid, comp, components, powerSources>> ]_vars

\* the same for the imported file alone
C22_RefusedFileChangesNothing ==
    [][ \A data \in ExternalData :
            (~validateImportData(data)
               /\ (ImportFromFileAccepted(data) \/ ImportFromFileRejected(data)))
            => UNCHANGED <<grid, comp, components, powerSources>> ]_vars

(* ---------------------------------------------------------------------- *)
(* Claims about the batteries                                              *)
(* ---------------------------------------------------------------------- *)

\* C23 (as claimed): every battery of the circuit has powered = true, so the
\* source loop of a tick skips none.
C23_BatteriesArePowered ==
    \A id \in Range(components) \cup Range(powerSources) :
        comp[id].kind = "battery" => comp[id].powered

(* ---------------------------------------------------------------------- *)
(* Claims about validateCircuit                                            *)
(* ---------------------------------------------------------------------- *)

\* the cells next to a cell of the component's footprint, the footprint left out
Surrounding(id) ==
    {cell \in DOMAIN grid \ CellsOf(id) :
        \E own \in CellsOf(id) :
            \/ (cell[1] = own[1] /\ (cell[2] = own[2] + 1 \/ cell[2] = own[2] - 1))
            \/ (cell[2] = own[2] /\ (cell[1] = own[1] + 1 \/ cell[1] = own[1] - 1))}

\* the listed components that are no battery and have no component next to them
Isolated ==
    {id \in Range(components) :
        comp[id].kind # "battery" /\ \A cell \in Surrounding(id) : grid[cell] = NULL}

\* C24 (as claimed): validateCircuit reports isolated components exactly when
\* some listed component that is no battery has no other component in a cell
\* next to it, and reports their number, for two-cell gates as for others.
C24_IsolatedIssueCountsTheIsolated ==
    last.op = "validate" => (last.ok <=> Isolated # {}) /\ last.x = Cardinality(Isolated)

\* the same for the circuits without a gate
C24_IsolatedOneCellComponentsCounted ==
    (last.op = "validate" /\ \A id \in Range(components) : ~IsLogicGate(comp[id].kind))
        => (last.ok <=> Isolated # {}) /\ last.x = Cardinality(Isolated)

(* ---------------------------------------------------------------------- *)
(* Claims about the factory                                                *)
(* ---------------------------------------------------------------------- *)

\* the thirteen kinds of the data model, as type strings
DataModelKinds ==
    {"battery", "led", "resistor", "switch", "wire", "push-button", "buzzer"} \cup GateKinds

\* C25 (as claimed): ComponentFactory.create returns a component of the kind
\* asked for when it is one of the thirteen kinds of the data model, and null
\* for every other kind string.
C25_FactoryKnowsThirteenKinds ==
    last.op = "create" =>
        IF last.kind \in DataModelKinds
        THEN last.c # NULL /\ comp[last.c].kind = last.kind
        ELSE last.c = NULL

\* the same with the push-button and the buzzer left out
C25_FactoryKnowsElevenKinds ==
    (last.op = "create" /\ last.kind \notin {"push-button", "buzzer"}) =>
        IF last.kind \in DataModelKinds
        THEN last.c # NULL /\ comp[last.c].kind = last.kind
        ELSE last.c = NULL

(* ---------------------------------------------------------------------- *)
(* Claims about a successful placeComponent                                *)
(* ---------------------------------------------------------------------- *)

\* the cells of a footprint of w x h cells anchored at (gx, gy)
Anchored(gx, gy, w, h) == {<<gx + dx, gy + dy>> : dx \in 0..(w - 1), dy \in 0..(h - 1)}

\* C26: after a placeComponent(component, x, y) that returned true, every cell
\* of the component's footprint anchored at (x, y) is a cell of the grid and
\* holds the component, every other cell holds what it held, and the
\* component's gridX/gridY are (x, y) and its x/y are (x, y) times gridSize.
C26_PlacedOnWholeFootprint ==
    (last.op = "place" /\ last.ok) =>
        /\ Anchored(last.x, last.y, gridWidth(last.kind), gridHeight(last.kind)) \subseteq DOMAIN grid
        /\ \A cell \in DOMAIN grid :
               grid[cell] = IF cell \in Anchored(last.x, last.y, gridWidth(last.kind), gridHeight(last.kind))
                            THEN last.c ELSE pre.grid[cell]
        /\ comp[last.c].gridX = last.x /\ comp[last.c].gridY = last.y
        /\ comp[last.c].x = last.x * gridSize /\ comp[last.c].y = last.y * gridSize
        /\ \A id \in DOMAIN comp \ {last.c} : comp[id] = pre.comp[id]

\* a gate was placed away from the first column, on a grid that held another
\* component already
C26_Witness ==
    /\ last.op = "place"
    /\ last.ok
    /\ last.kind \in GateKinds
    /\ last.x > 0
    /\ OnGrid \ {last.c} # {}
    /\ CellsOf(last.c) = {<<last.x, last.y>>, <<last.x, last.y + 1>>}

\* ---- C27 ----

BlinkLoaded == last.op # "none" /\ timers # {}

LedLit == \E i \in DOMAIN components : comp[components[i]].kind = "led" /\ comp[components[i]].powered

LedDark == \E i \in DOMAIN components : comp[components[i]].kind = "led" /\ ~comp[components[i]].powered

XorDemoLoaded == \E i \in DOMAIN components : comp[components[i]].kind = "xor-gate"

\* C28: in the circuit built by createXORDemo, once no switch has been toggled
\* for two ticks, the output LED is powered exactly when one of the two
\* switches is closed and the other open
C28_XorDemoLedShowsXor ==
    (XorDemoLoaded /\ clock.steady >= 2)
        => (LedLit <=> Cardinality(ClosedSwitches(comp, components)) = 1)

\* what the code does instead: the gate placed at (3,1) reads the cells (2,1)
\* and (2,3), which createXORDemo leaves empty, so its output stays false and
\* the LED of the demonstration never lights
C28_XorDemoLedStaysDark == XorDemoLoaded => ~LedLit

\* ---- C29 ----

Listed == {components[i] : i \in DOMAIN components}

\* C29: after every completed updateCircuit every logic gate of the component
\* list has powered equal to output and output equal to its kind's function of
\* the inputs it collected, and every open switch of the list is unpowered
C29_GatesAndOpenSwitchesSettled ==
    last.op = "tick" =>
        \A id \in Listed :
            /\ IsLogicGate(comp[id].kind) =>
                  /\ comp[id].powered = comp[id].output
                  /\ comp[id].output = calculate(comp[id].kind, comp[id].inputs)
            /\ (comp[id].kind = "switch" /\ ~comp[id].closed) => ~comp[id].powered

\* a tick in which propagation from a battery reached a gate through the powered
\* wire left of it, the gate's function of its inputs is false, and a switch is open
C29_Witness ==
    /\ last.op = "tick"
    /\ \E id \in Listed :
          /\ comp[id].kind = "and-gate"
          /\ CellsOf(id) # {}
          /\ ~calculate(comp[id].kind, comp[id].inputs)
          /\ isValidPosition(cols, rows, comp[id].gridX - 1, comp[id].gridY)
          /\ grid[<<comp[id].gridX - 1, comp[id].gridY>>] # NULL
          /\ comp[grid[<<comp[id].gridX - 1, comp[id].gridY>>]].kind = "wire"
          /\ comp[grid[<<comp[id].gridX - 1, comp[id].gridY>>]].powered
    /\ \E id \in Listed : comp[id].kind = "switch" /\ ~comp[id].closed

\* ---- C30 ----

\* the components in the cells next to the cells of id
NextTo(id) == {grid[cell] : cell \in Surrounding(id)} \ {NULL}

\* the LEDs on the output terminal (gridX + 1, gridY + 1) of gate, with the
\* gate as their only adjacent component
OutputLeds(gate) ==
    {led \in Listed :
        /\ comp[led].kind = "led"
        /\ CellsOf(led) = {<<comp[gate].gridX + 1, comp[gate].gridY + 1>>}
        /\ NextTo(led) = {gate}}

\* C30: after every tick an LED on the output terminal of a logic gate, with
\* no other component next to it, is powered exactly when the output the gate
\* computed in that tick is true
C30_OutputLedShowsGateOutput ==
    last.op = "tick" =>
        \A gate \in Listed :
            (IsLogicGate(comp[gate].kind) /\ CellsOf(gate) # {}) =>
                \A led \in OutputLeds(gate) : comp[led].powered <=> comp[gate].output

\* what the code does instead one tick later: once no switch has been toggled
\* for two ticks the LED shows the gate's output
C30_OutputLedSettlesAfterTwoTicks ==
    (last.op = "tick" /\ clock.steady >= 2) =>
        \A gate \in Listed :
            (IsLogicGate(comp[gate].kind) /\ CellsOf(gate) # {}) =>
                \A led \in OutputLeds(gate) : comp[led].powered <=> comp[gate].output

\* ---- C31 ----

\* the source list addComponent builds when the components are added in this order
SourcesOf(cm, list) == SelectSeq(list, LAMBDA id : cm[id].kind = "battery")

\* what a tick leaves to be seen: each component's powered flag and output
Outcome(cm) == [id \in DOMAIN cm |-> <<cm[id].powered, cm[id].output>>]

\* C31: for a fixed placement and fixed switch states the powered flags and
\* gate outputs after a tick are the same for every order in which the
\* components were added to the simulator's component list
C31_TickIsListOrderIndependent ==
    [][ last'.op = "tick" =>
          \A list \in Orders(components) :
              Outcome(updateCircuit(grid, cols, rows, comp, list, SourcesOf(comp, list)))
                  = Outcome(comp') ]_vars

\* some listed gate reads, as an input, a cell that another gate holds
GateReadsGate ==
    \E b \in Listed : \E k \in 1..2 :
        /\ IsLogicGate(comp[b].kind)
        /\ getComponent(grid, cols, rows, inputPositions(comp, b)[k][1],
                                          inputPositions(comp, b)[k][2]) \notin {NULL, b}
        /\ IsLogicGate(comp[getComponent(grid, cols, rows, inputPositions(comp, b)[k][1],
                                                           inputPositions(comp, b)[k][2])].kind)

\* where the order does not show: in circuits in which no gate reads a cell
\* held by another gate
C31_OrderShowsOnlyBetweenGates ==
    [][ (last'.op = "tick" /\ ~GateReadsGate) =>
          \A list \in Orders(components) :
              Outcome(updateCircuit(grid, cols, rows, comp, list, SourcesOf(comp, list)))
                  = Outcome(comp') ]_vars

\* ---- C32 ----

\* a list without the components that hold no cell of the grid any more
StillPlaced(list) == SelectSeq(list, LAMBDA id : CellsOf(id) # {})

\* C32: a component that Grid.resize dropped from the grid has no influence on
\* later ticks: the components still on the grid end each tick with the powered
\* flags they would have if the dropped components were in neither list
C32_DroppedComponentsAreInert ==
    [][ last'.op = "tick" =>
          \A id \in OnGrid :
              comp'[id].powered =
                  updateCircuit(grid, cols, rows, comp, StillPlaced(components),
                                StillPlaced(powerSources))[id].powered ]_vars

\* ---- C33 ----

\* id holds exactly the cells of its footprint at its stored gridX, gridY
HoldsFootprint(id) ==
    CellsOf(id) = Anchored(comp[id].gridX, comp[id].gridY,
                           gridWidth(comp[id].kind), gridHeight(comp[id].kind))

\* C33: right after a starter-circuit builder has returned, every component of
\* the component list holds exactly the cells of its footprint at its stored
\* gridX, gridY: every placeComponent call of the builder succeeded
C33_BuildersPlaceEveryComponent ==
    last.op \in BuilderTypes => \A id \in Listed : HoldsFootprint(id)

\* the builders whose placements all succeed
C33_ThreeBuildersPlaceEveryComponent ==
    last.op \in {"blinkingLED", "basicAND", "xorDemo"} => \A id \in Listed : HoldsFootprint(id)

\* the positions in the component list of the components that do not hold
\* their footprint
OffGrid == {i \in DOMAIN components : ~HoldsFootprint(components[i])}

\* what the other builders leave: createFullAdder loses and1, and2 and sumLED,
\* createSRFlipFlop loses nor2, createCounter loses and2
C33_ThreeBuildersLoseComponents ==
    /\ last.op = "fullAdder" => OffGrid = {9, 10, 12}
    /\ last.op = "srFlipFlop" => OffGrid = {6}
    /\ last.op = "counter" => OffGrid = {12}

\* ---- C34 ----

\* in grid g, id holds exactly the cells of its footprint at the origin stored
\* in rec, and the pixel position of rec is that of its origin
SitsAt(g, rec, id) ==
    /\ {cell \in DOMAIN g : g[cell] = id}
          = Anchored(rec.gridX, rec.gridY, gridWidth(rec.kind), gridHeight(rec.kind))
    /\ rec.x = rec.gridX * gridSize
    /\ rec.y = rec.gridY * gridSize

\* C34: after moveSelectedComponent the selected component is on the grid on
\* its whole footprint, at the new origin or, when the move was refused, at
\* its old origin, and gridX, gridY and x, y agree with the cells it holds
C34_MoveKeepsSelectedOnGrid ==
    [][ (last'.op = "move" /\ SitsAt(grid, comp[selectedComponent], selectedComponent)) =>
          /\ SitsAt(grid', comp'[selectedComponent], selectedComponent)
          /\ \/ comp'[selectedComponent].gridX = last'.x /\ comp'[selectedComponent].gridY = last'.y
             \/ comp'[selectedComponent] = comp[selectedComponent] ]_vars

\* one-cell components are moved as the claim says
C34_MoveKeepsOneCellComponentsOnGrid ==
    [][ (/\ last'.op = "move"
         /\ SitsAt(grid, comp[selectedComponent], selectedComponent)
         /\ ~IsLogicGate(comp[selectedComponent].kind)) =>
          /\ SitsAt(grid', comp'[selectedComponent], selectedComponent)
          /\ \/ comp'[selectedComponent].gridX = last'.x /\ comp'[selectedComponent].gridY = last'.y
             \/ comp'[selectedComponent] = comp[selectedComponent] ]_vars

\* ---- C35 ----

NoBattery == \A id \in Listed : comp[id].kind # "battery"

\* the listed LEDs, wires, resistors and switches that are powered
PoweredParts ==
    {id \in Listed : comp[id].kind \in {"led", "wire", "resistor", "switch"} /\ comp[id].powered}

\* the listed gates whose output is true
HighGates == {id \in Listed : IsLogicGate(comp[id].kind) /\ comp[id].output}

\* C35 as stated: in a circuit whose component list holds no battery, no LED,
\* wire, resistor or switch is powered after a tick, whatever gates it holds
C35_NoBatteryNoPower ==
    (last.op = "tick" /\ NoBattery) => PoweredParts = {}

\* C35, amended: in a circuit whose component list holds no battery, an LED,
\* wire, resistor or switch is powered after a tick only if some gate of the
\* list has output true after that tick
C35_NoBatteryPowerOnlyFromHighGate ==
    (last.op = "tick" /\ NoBattery /\ PoweredParts # {}) => HighGates # {}

\* a circuit without a battery in which a tick has left an LED powered
C35_Witness ==
    /\ last.op = "tick"
    /\ NoBattery
    /\ \E id \in PoweredParts : comp[id].kind = "led"

\* ---- C36 ----

\* C36: over any sequence of start(), stop() and frame callbacks at most one
\* simulate callback is pending at any time
C36_AtMostOneLoop == Cardinality(simulator.frames) <= 1

\* how a second loop comes about: the number of pending callbacks grows only
\* in start(), which requests a frame without cancelling one that is pending;
\* a frame callback replaces itself and stop() cancels one frame
C36_OnlyStartAddsALoop ==
    [][ Cardinality(simulator'.frames) > Cardinality(simulator.frames) => last'.op = "start" ]_vars

\* ---- C37 ----

\* C37: updateCircuit changes nothing but the powered flag of components and
\* the inputs and output of logic gates: the grid, the two lists, and every
\* component's kind, position and closed flag stay as they were
C37_TickChangesOnlyPowerAndGateValues ==
    [][ last'.op = "tick" =>
          /\ grid' = grid /\ cols' = cols /\ rows' = rows
          /\ components' = components
          /\ powerSources' = powerSources
          /\ \A id \in DOMAIN comp :
                /\ comp'[id].kind = comp[id].kind
                /\ comp'[id].x = comp[id].x /\ comp'[id].y = comp[id].y
                /\ comp'[id].gridX = comp[id].gridX /\ comp'[id].gridY = comp[id].gridY
                /\ comp'[id].closed = comp[id].closed
                /\ ~IsLogicGate(comp[id].kind) =>
                      /\ comp'[id].inputs = comp[id].inputs
                      /\ comp'[id].output = comp[id].output ]_vars

\* a tick that has powered a closed switch and given a gate its inputs
C37_Witness ==
    /\ last.op = "tick"
    /\ \E id \in Listed : comp[id].kind = "switch" /\ comp[id].closed /\ comp[id].powered
    /\ \E id \in Listed : IsLogicGate(comp[id].kind) /\ Len(comp[id].inputs) > 0

\* ---- C38 ----

\* the entries of the export that carry the kind and the origin cell of id
OriginEntries(data, id) ==
    {i \in 1..Len(data) : /\ data[i].type = comp[id].kind
                          /\ data[i].x = comp[id].gridX
                          /\ data[i].y = comp[id].gridY}

\* C38: Grid.export returns exactly one entry per component placed on the
\* grid, with the component's origin cell as its x and y, for two-cell gates
\* as for one-cell components
C38_ExportHasOneEntryPerComponent ==
    [][ last'.op = "import" =>
          \E data \in {exportGrid(grid, cols, rows, comp)} :
              /\ Len(data) = Cardinality(OnGrid)
              /\ \A id \in OnGrid : Cardinality(OriginEntries(data, id)) = 1 ]_vars

\* what Grid.export returns: one entry per occupied cell, with that cell as
\* its x and y, so a gate that holds two cells is written twice
C38_ExportHasOneEntryPerCell ==
    [][ last'.op = "import" =>
          \E data \in {exportGrid(grid, cols, rows, comp)} :
              /\ Len(data) = Cardinality({cell \in DOMAIN grid : grid[cell] # NULL})
              /\ \A cell \in DOMAIN grid :
                    grid[cell] # NULL =>
                        Cardinality({i \in 1..Len(data) :
                                        /\ data[i].type = comp[grid[cell]].kind
                                        /\ data[i].x = cell[1]
                                        /\ data[i].y = cell[2]}) = 1 ]_vars


====
